---- MODULE Spec2Model ----
(***************************************************************************)
(* Proof-of-stake minter, block assembler and kernel of the node.          *)
(*                                                                         *)
(* Eight state machines share this module, each with its own               *)
(* specifications; the variables of the machines a specification does not  *)
(* run stay at their initial values.                                       *)
(*                                                                         *)
(*   Spec / FairSpec  the stake-minter thread PoSMiner (miner.cpp 658-785) *)
(*                    with the locks it takes, its interruptible sleeps    *)
(*                    and the environment around it.                       *)
(*   SpecAsm          BlockAssembler::CreateNewBlock (miner.cpp 128-269):  *)
(*                    package selection, canonical sort, coinstake tail,   *)
(*                    over every mempool of MaxTx transactions.            *)
(*   SpecStake        the same call over every network, clock and wallet   *)
(*                    of at most MaxCoins stake coins (CreateCoinStake,    *)
(*                    miner.cpp 538-636).                                  *)
(*   SpecTreasury     the same call over the treasury payments and payee   *)
(*                    tables (FillTreasuryPayee, miner.cpp 112-122).       *)
(*   SpecTs           CheckCoinStakeTimestamp (kernel.cpp 601-607).        *)
(*   SpecChain        the block index growing block by block, each entry   *)
(*                    with the modifier of ComputeNextStakeModifier        *)
(*                    (kernel.cpp 126-254), up to MaxBlocks entries.       *)
(*   SpecKernel       CheckStakeKernelHash (kernel.cpp 447-555) searching  *)
(*                    and checking, the active tip changing under a        *)
(*                    search, with arith_uint256 of ArithDigits digits.    *)
(*   SpecTwice        CreateNewBlock called again, on the same assembler   *)
(*                    or a new one, over an unchanged mempool.             *)
(*   SpecParams       SelectParams and CreateChainParams                   *)
(*                    (chainparams.cpp 531-599) over the -segwitheight and *)
(*                    -vbparams arguments of a regtest node.               *)
(*   SpecSelect       SpecChain with blocks added after a long pause as    *)
(*                    well, for the selection rounds of                    *)
(*                    SelectBlockFromCandidates (kernel.cpp 63-111).       *)
(*   SpecModifier     GetKernelStakeModifierV05 (kernel.cpp 282-321)       *)
(*                    resolved over the kernel's chains and their          *)
(*                    reorderings.                                         *)
(*   SpecWalk         GetKernelStakeModifierV03 (kernel.cpp 329-378) for   *)
(*                    any entry of a block index of at most MaxActive      *)
(*                    active blocks and a side branch of at most           *)
(*                    MaxBranch blocks.                                    *)
(*   SpecSearch       CreateNewBlock called with a wallet again and again, *)
(*                    the clock moving, for the static                     *)
(*                    nLastCoinStakeSearchTime (miner.cpp 166, 218-238).   *)
(***************************************************************************)
EXTENDS Integers, Sequences, FiniteSets, TLC

VARIABLES
    \* ---- stake-minter thread (PoSMiner) ----
    pc,               \* position of the minter thread in PoSMiner
    held,             \* locks the minter thread holds, in acquisition order
    interruptNet,     \* connman->interruptNet: the cancellation flag
    fMinting,         \* -minting and -staking both set
    fRegtest,         \* Params().NetworkIDString() == REGTEST
    fWalletLocked,    \* pwallet->IsLocked()
    fPeersOnline,     \* GetNodeCount() > 0 and not IsInitialBlockDownload()
    fSynced,          \* GuessVerificationProgress() >= 0.996
    fTimeAdvanced,    \* GetAdjustedTime() > nLastCoinStakeSearchTime
    fNeedToClear,     \* local fNeedToClear
    strMintWarning,   \* global strMintWarning
    fPoSCancel,       \* local fPoSCancel
    pblocktemplate,   \* local pblocktemplate: "null" or "template"
    fStale,           \* pblock->hashPrevBlock != active tip hash
    fCancelled,       \* history: some sleep_for returned false
    exitReason,       \* history: why the thread left PoSMiner
    lastCall,         \* history: the last external call the thread made
    fErrorSeen,       \* history: a signature failed or a block was stale
                      \* or rejected
    fSlept,           \* history: the thread passed a sleep_for since it
                      \* last called CreateNewBlock
    \* ---- CheckCoinStakeTimestamp ----
    nStakeTimestampMask,  \* consensus.nStakeTimestampMask of the network
    nTimeBlock,       \* argument nTimeBlock
    nTimeTx,          \* argument nTimeTx
    tsResult,         \* "none" before the call, then "true" or "false"
    \* ---- mempool (read-only while CreateNewBlock holds m_mempool.cs) ----
    mpParents,        \* tx -> in-mempool txs one of whose outputs it spends
    mpEntry,          \* tx -> its CTxMemPoolEntry: fee, size, weight, sigops,
                      \*       final, witness
    mapTx,            \* m_mempool.mapTx.get<ancestor_score>(): txs, best first
    wtxid,            \* selected tx -> rank of its GetWitnessHash(); <<>>
                      \* until the canonical sort reads the hashes
    \* ---- chain, clock and wallet as CreateNewBlock reads them ----
    nStakeMinAge,     \* consensus.nStakeMinAge
    nStakeMinDepth,   \* consensus.nStakeMinDepth
    fWallet,          \* argument pwallet != nullptr
    fWitnessEnabled,  \* IsWitnessEnabled(pindexPrev, consensusParams)
    nHeight,          \* pindexPrev->nHeight + 1
    nSubsidy,         \* GetBlockSubsidy(nHeight, false, 0, consensusParams)
    nTreasuryPayment, \* GetTreasuryPayment(nHeight, consensusParams)
    treasuryPayees,   \* consensusParams.mTreasuryPayees, in map order
    nMedianTimePast,  \* pindexPrev->GetMedianTimePast()
    fSelectStakeCoins,  \* what pwallet->SelectStakeCoins returns
    setCoins,         \* the coins it selects, in outpoint order
    nAdjustedTime,    \* GetAdjustedTime()
    nLastCoinStakeSearchTime,  \* static nLastCoinStakeSearchTime
    searchTimes,      \* history: the values nLastCoinStakeSearchTime has
                      \* had, the first at startup, one more per search
    \* ---- BlockAssembler ----
    apc,              \* position of the caller in CreateNewBlock
    blockMinFeeRate,  \* member blockMinFeeRate
    nBlockMaxWeight,  \* member nBlockMaxWeight
    fProofOfStake,    \* pwallet != nullptr
    fIncludeWitness,  \* member fIncludeWitness
    inBlock,          \* member inBlock
    entries,          \* pblocktemplate->entries, as transaction ids
    vtx,              \* pblock->vtx, as transaction ids
    nBlockWeight,     \* member nBlockWeight
    nBlockSigOpsCost, \* member nBlockSigOpsCost
    nBlockTx,         \* member nBlockTx
    nFees,            \* member nFees
    mi,               \* addPackageTxs: position of iterator mi in mapTx
    mapModifiedTx,    \* addPackageTxs: tx -> modified ancestor state
    failedTx,         \* addPackageTxs: failedTx
    nConsecutiveFailed,  \* addPackageTxs: nConsecutiveFailed
    fAssertFailed,    \* assert(!inBlock.count(iter)) failed
    nTime,            \* pblock->nTime
    pfPoSCancel,      \* *pfPoSCancel
    coinbaseTx,       \* local coinbaseTx
    coinstakeTx,      \* the coinstake installed at entries[1]
    stakeOutcome,     \* history: "none", then "not searched", "no kernel"
                      \* or "kernel" (CreateCoinStake returned true)
    stakeKernel,      \* history: what CreateCoinStake returned, with the
                      \* coin it stopped at when it returned true
    nTimeAtStart,     \* history: GetAdjustedTime() as line 174 read it
    fClockMoved,      \* history: a later read of the call gave another time
    asmResult,        \* "none", then "null", "template" or "runtime_error"
    prevCall,         \* history: the template an earlier call returned,
                      \* and what its canonical sort was given and gave
    \* ---- block index (stake modifiers) ----
    chain,            \* the block index entries from genesis to the tip,
                      \* each with its pprev before it: hash, nTime,
                      \* fProofOfStake, nStakeModifier, fGenerated
    modOutcomes,      \* history: what ComputeNextStakeModifier can return
                      \* for the last entry, over the outcomes of GetRand
    \* ---- CheckStakeKernelHash ----
    kernelParams,     \* Params().GetConsensus(), as far as the kernel reads it
    activeTip,        \* height and hash of ::ChainActive().Tip()
    kernelArgs,       \* the arguments as passed; pindexPrev is the last
                      \* entry of chain, pindexFrom the entry at pFrom
    kernelTimeTx,     \* the in/out argument nTimeTx
    hashProofOfStake, \* the out argument hashProofOfStake
    kernelPc,         \* "none", "called", "loop", "done"
    kernelLoop,       \* locals: i, nStakeModifier, bnTargetPerCoinDay
    kernelResult,     \* "none", then "true" or "false"
    kernelHist,       \* history: how far the call got, modifier asked for,
                      \* hashes computed (up to 2), tip changes, turns of
                      \* the loop after one (up to 2), target tests made
    kernelVerify,     \* the check made of a search's result
    \* ---- chain parameters ----
    gArgs,            \* the arguments -segwitheight and -vbparams
    globalChainParams,  \* static globalChainParams: <<>> or the parameters
    selectNetwork,    \* history: the argument of the last SelectParams
    selectResult,     \* history: "none", then "returned" or "threw"
    \* ---- GetKernelStakeModifierV05 ----
    modResolved,      \* what a call of it for pindexPrev = the last entry
                      \* of chain and nTimeTx = kernelArgs.nTimeTx returned
    \* ---- GetKernelStakeModifierV03 ----
    sideBranch,       \* the entries of the block index off the active
                      \* chain: a branch and the position of its parent
    walk              \* a call of it: its arguments, its locals, its
                      \* position and the history of what it read

minterVars == <<pc, held, interruptNet, fMinting, fRegtest, fWalletLocked,
                fPeersOnline, fSynced, fTimeAdvanced, fNeedToClear,
                strMintWarning, fPoSCancel, pblocktemplate, fStale,
                fCancelled, exitReason, lastCall, fErrorSeen, fSlept>>

tsVars == <<nStakeTimestampMask, nTimeBlock, nTimeTx, tsResult>>

mempoolVars == <<mpParents, mpEntry, mapTx, wtxid>>

chainEnv == <<nStakeMinAge, nStakeMinDepth, fWallet, fWitnessEnabled, nHeight,
              nSubsidy, nTreasuryPayment, treasuryPayees, nMedianTimePast,
              fSelectStakeCoins, setCoins>>

stakeVars == <<chainEnv, nAdjustedTime, nLastCoinStakeSearchTime,
              searchTimes>>

asmVars == <<apc, blockMinFeeRate, nBlockMaxWeight, fProofOfStake,
             fIncludeWitness, inBlock, entries, vtx, nBlockWeight,
             nBlockSigOpsCost, nBlockTx, nFees, mi, mapModifiedTx, failedTx,
             nConsecutiveFailed, fAssertFailed, nTime, pfPoSCancel,
             coinbaseTx, coinstakeTx, stakeOutcome, stakeKernel, nTimeAtStart,
             fClockMoved, asmResult, prevCall>>

chainVars == <<chain, modOutcomes>>

kernelVars == <<kernelParams, activeTip, kernelArgs, kernelTimeTx,
                hashProofOfStake, kernelPc, kernelLoop, kernelResult,
                kernelHist, kernelVerify>>

paramsVars == <<gArgs, globalChainParams, selectNetwork, selectResult>>

resolveVars == <<modResolved, sideBranch, walk>>

vars == <<minterVars, tsVars, mempoolVars, stakeVars, asmVars, chainVars,
          kernelVars, paramsVars, resolveVars>>

----------------------------------------------------------------------------
(* Bounds of the model.                                                    *)

\* largest timestamp drawn for a timestamp check
MaxTs == 17

\* number of transactions in the mempool
MaxTx == 3

\* largest number of stake coins in the wallet
MaxCoins == 2

\* the clock, the median time past and the last search time are drawn from
\* nStakeMinAge .. nStakeMinAge + MaxTime
MaxTime == 1

\* largest number of entries of the block index, genesis included
MaxBlocks == 6

\* number of two-bit digits of an arith_uint256
ArithDigits == 6

----------------------------------------------------------------------------
(* Integer helpers.                                                        *)

\* a & b on non-negative integers
RECURSIVE BitAnd(_, _)
BitAnd(a, b) ==
    IF a = 0 \/ b = 0 THEN 0
    ELSE (a % 2) * (b % 2) + 2 * BitAnd(a \div 2, b \div 2)

\* consensus.nStakeTimestampMask: 0xf on main, testnet and signet, 0x3 on
\* regtest
StakeTimestampMasks == {15, 3}

----------------------------------------------------------------------------
(* Locks.                                                                  *)

CS_WALLET  == "cs_wallet"
CS_MAIN    == "cs_main"
CS_MEMPOOL == "mempool.cs"

Holds(l) == \E i \in 1..Len(held) : held[i] = l

\* LOCK(l): the scoped lock is pushed; its scope exit pops it.
Acquire(l) == held' = Append(held, l)
Release(l) == /\ Len(held) > 0
              /\ held[Len(held)] = l
              /\ held' = SubSeq(held, 1, Len(held) - 1)

----------------------------------------------------------------------------
(* The minter thread.                                                      *)

strMintEmpty           == ""
strMintMessage         == "locked wallet"
strMintSyncMessage     == "synchronizing"
strMintDisabledMessage == "disabled"

MinterInit ==
    /\ pc = "start"
    /\ held = <<>>
    /\ interruptNet = FALSE
    /\ fMinting \in BOOLEAN
    /\ fRegtest \in BOOLEAN
    /\ fWalletLocked \in BOOLEAN
    /\ fPeersOnline \in BOOLEAN
    /\ fSynced \in BOOLEAN
    /\ fTimeAdvanced \in BOOLEAN
    /\ fNeedToClear = FALSE
    /\ strMintWarning = strMintEmpty
    /\ fPoSCancel = FALSE
    /\ pblocktemplate = "null"
    /\ fStale = FALSE
    /\ fCancelled = FALSE
    /\ exitReason = "none"
    /\ lastCall = "none"
    /\ fErrorSeen = FALSE
    /\ fSlept = FALSE

envVars == <<interruptNet, fMinting, fRegtest, fWalletLocked, fPeersOnline,
             fSynced, fTimeAdvanced, fStale>>
locals  == <<fNeedToClear, strMintWarning, fPoSCancel, pblocktemplate>>
history == <<fCancelled, exitReason, lastCall, fErrorSeen, fSlept>>

\* if (!connman->interruptNet.sleep_for(d)) return;  -- the sleep returns
\* false when the flag is set by the time it wakes.
SleepOrReturn(at, next) ==
    /\ pc = at
    /\ held = <<>>
    /\ IF interruptNet
         THEN /\ pc' = "exit"
              /\ fCancelled' = TRUE
              /\ exitReason' = "cancelled"
         ELSE /\ pc' = next
              /\ UNCHANGED <<fCancelled, exitReason>>
    /\ fSlept' = TRUE
    /\ UNCHANGED <<held, envVars, locals, lastCall, fErrorSeen>>

\* A sleep whose false result is not followed by return.
SleepNoReturn(at, next) ==
    /\ pc = at
    /\ pc' = next
    /\ fCancelled' = interruptNet
    /\ fSlept' = TRUE
    /\ UNCHANGED <<held, envVars, locals, exitReason, lastCall, fErrorSeen>>

\* 668: LOCK(pwallet->cs_wallet)
TimioLock ==
    /\ pc = "start"
    /\ Acquire(CS_WALLET)
    /\ pc' = "timio"
    /\ UNCHANGED <<envVars, locals, history>>

\* 670-675: AvailableCoins, pos_timio; the scope ends
TimioUnlock ==
    /\ pc = "timio"
    /\ Release(CS_WALLET)
    /\ pc' = "check_minting"
    /\ lastCall' = "AvailableCoins"
    /\ UNCHANGED <<envVars, locals, fCancelled, exitReason, fErrorSeen, fSlept>>

\* 682-686
CheckMinting ==
    /\ pc = "check_minting"
    /\ IF ~fMinting
         THEN /\ strMintWarning' = strMintDisabledMessage
              /\ pc' = "exit"
              /\ exitReason' = "disabled"
         ELSE /\ pc' = "wait_unlock"
              /\ UNCHANGED <<strMintWarning, exitReason>>
    /\ UNCHANGED <<held, envVars, fNeedToClear, fPoSCancel, pblocktemplate,
                   fCancelled, lastCall, fErrorSeen, fSlept>>

\* 691-696: while (pwallet->IsLocked())
WaitUnlock ==
    /\ pc = "wait_unlock"
    /\ IF fWalletLocked
         THEN /\ strMintWarning' = strMintMessage
              /\ fNeedToClear' = TRUE
              /\ pc' = "sleep_locked"
         ELSE /\ pc' = "wait_peers"
              /\ UNCHANGED <<strMintWarning, fNeedToClear>>
    /\ UNCHANGED <<held, envVars, fPoSCancel, pblocktemplate, history>>

\* 697-698
SleepLocked == SleepOrReturn("sleep_locked", "wait_unlock")

\* 701-704
WaitPeers ==
    /\ pc = "wait_peers"
    /\ pc' = IF ~fRegtest /\ ~fPeersOnline THEN "sleep_peers" ELSE "wait_sync"
    /\ UNCHANGED <<held, envVars, locals, history>>

\* 705-706
SleepPeers == SleepOrReturn("sleep_peers", "wait_peers")

\* 710-724
WaitSync ==
    /\ pc = "wait_sync"
    /\ IF ~fSynced
         THEN /\ strMintWarning' = strMintSyncMessage
              /\ fNeedToClear' = TRUE
              /\ pc' = "sleep_sync"
         ELSE /\ strMintWarning' =
                    IF fNeedToClear THEN strMintEmpty ELSE strMintWarning
              /\ fNeedToClear' = FALSE
              /\ pc' = "create"
    /\ UNCHANGED <<held, envVars, fPoSCancel, pblocktemplate, history>>

\* 717-718
SleepSync == SleepOrReturn("sleep_sync", "wait_sync")

\* 729-735: fPoSCancel = false; LOCK(pwallet->cs_wallet)
CreateLockWallet ==
    /\ pc = "create"
    /\ Acquire(CS_WALLET)
    /\ fPoSCancel' = FALSE
    /\ pblocktemplate' = "null"
    /\ pc' = "cnb_lock_main"
    /\ UNCHANGED <<envVars, fNeedToClear, strMintWarning, history>>

\* LOCK2 with its arguments exchanged.
Lock2Swapped == <<CS_MEMPOOL, CS_MAIN>>

\* 140: LOCK2(cs_main, m_mempool.cs) locks its first argument, then its
\* second
Lock2Order == <<CS_MAIN, CS_MEMPOOL>>

CnbLockMain ==
    /\ pc = "cnb_lock_main"
    /\ Acquire(Lock2Order[1])
    /\ pc' = "cnb_lock_mempool"
    /\ lastCall' = "CreateNewBlock"
    /\ fSlept' = FALSE
    /\ UNCHANGED <<envVars, locals, fCancelled, exitReason, fErrorSeen>>

CnbLockMempool ==
    /\ pc = "cnb_lock_mempool"
    /\ Acquire(Lock2Order[2])
    /\ pc' = "cnb_body"
    /\ UNCHANGED <<envVars, locals, history>>

\* 141-237: CreateNewBlock with a wallet returns nullptr with *pfPoSCancel
\* set: no search because the adjusted time did not pass the last search
\* time (222), or the search found no usable coinstake (223-224).
CnbReturnNull ==
    /\ pc = "cnb_body"
    /\ Len(held) = 3
    /\ fPoSCancel' = TRUE
    /\ pblocktemplate' = "null"
    /\ fTimeAdvanced' = FALSE
    /\ held' = <<CS_WALLET>>
    /\ pc' = "create_unlock"
    /\ UNCHANGED <<interruptNet, fMinting, fRegtest, fWalletLocked,
                   fPeersOnline, fSynced, fStale, fNeedToClear,
                   strMintWarning, history>>

\* 222-268: the search ran, a coinstake was installed (230) and
\* TestBlockValidity passed: the template is returned.
CnbReturnTemplate ==
    /\ pc = "cnb_body"
    /\ Len(held) = 3
    /\ fTimeAdvanced
    /\ fPoSCancel' = FALSE
    /\ pblocktemplate' = "template"
    /\ fTimeAdvanced' = FALSE
    /\ fStale' = FALSE
    /\ held' = <<CS_WALLET>>
    /\ pc' = "create_unlock"
    /\ UNCHANGED <<interruptNet, fMinting, fRegtest, fWalletLocked,
                   fPeersOnline, fSynced, fNeedToClear, strMintWarning,
                   history>>

\* 260-263 and 781-784: TestBlockValidity fails, CreateNewBlock throws
\* std::runtime_error; unwinding releases the three locks and PoSMiner's
\* handler logs and returns.
CnbThrow ==
    /\ pc = "cnb_body"
    /\ Len(held) = 3
    /\ fTimeAdvanced
    /\ fPoSCancel' = FALSE
    /\ fTimeAdvanced' = FALSE
    /\ held' = <<>>
    /\ pc' = "exit"
    /\ exitReason' = "runtime_error"
    /\ UNCHANGED <<interruptNet, fMinting, fRegtest, fWalletLocked,
                   fPeersOnline, fSynced, fStale, fNeedToClear,
                   strMintWarning, pblocktemplate, fCancelled, lastCall,
                   fErrorSeen, fSlept>>

\* 738: the scope of LOCK(pwallet->cs_wallet) ends
CreateUnlock ==
    /\ pc = "create_unlock"
    /\ Release(CS_WALLET)
    /\ pc' = "check_template"
    /\ UNCHANGED <<envVars, locals, history>>

\* 740-755.  CreateNewBlock with a wallet returns nullptr only at 237, with
\* fPoSCancel set (136-137 cannot be taken: new throws instead of returning
\* null), so the branch 746-752 is never entered.
CheckTemplate ==
    /\ pc = "check_template"
    /\ pc' = IF pblocktemplate = "null" THEN "sleep_cancel" ELSE "sign_lock"
    /\ UNCHANGED <<held, envVars, locals, history>>

\* The sleep of 742 followed by continue whatever it returns.
SleepCancelNoReturn == SleepNoReturn("sleep_cancel", "wait_unlock")

\* 742-744
SleepCancel == SleepOrReturn("sleep_cancel", "wait_unlock")

\* 758-760: pblock->IsProofOfStake() holds of every template built with a
\* wallet; LOCK(pwallet->cs_wallet)
SignLock ==
    /\ pc = "sign_lock"
    /\ Acquire(CS_WALLET)
    /\ pc' = "sign"
    /\ UNCHANGED <<envVars, locals, history>>

\* SignBlock whose failure ends the thread.
SignBlockOrReturn ==
    /\ pc = "sign"
    /\ Release(CS_WALLET)
    /\ lastCall' = "SignBlock"
    /\ \E fSigned \in BOOLEAN :
          /\ pc' = IF fSigned THEN "pbf_lock" ELSE "exit"
          /\ exitReason' = IF fSigned THEN exitReason ELSE "sign_failed"
          /\ fErrorSeen' = (fErrorSeen \/ ~fSigned)
    /\ UNCHANGED <<envVars, locals, fCancelled, fSlept>>

\* 761-765: SignBlock; on failure log and continue
SignBlockStep ==
    /\ pc = "sign"
    /\ Release(CS_WALLET)
    /\ lastCall' = "SignBlock"
    /\ \E fSigned \in BOOLEAN :
          /\ pc' = IF fSigned THEN "pbf_lock" ELSE "wait_unlock"
          /\ fErrorSeen' = (fErrorSeen \/ ~fSigned)
    /\ UNCHANGED <<envVars, locals, fCancelled, exitReason, fSlept>>

\* 645: ProcessBlockFound, LOCK(cs_main)
PbfLock ==
    /\ pc = "pbf_lock"
    /\ Acquire(CS_MAIN)
    /\ pc' = "pbf_check"
    /\ UNCHANGED <<envVars, locals, history>>

\* 646-648: stale check; the scope of the lock ends either way
PbfCheck ==
    /\ pc = "pbf_check"
    /\ Release(CS_MAIN)
    /\ pc' = IF fStale THEN "sleep_rest" ELSE "pbf_process"
    /\ fErrorSeen' = (fErrorSeen \/ fStale)
    /\ UNCHANGED <<envVars, locals, fCancelled, exitReason, lastCall, fSlept>>

\* 651-655: ProcessNewBlock accepts the block or not; the result of
\* ProcessBlockFound is not read (767)
PbfProcess ==
    /\ pc = "pbf_process"
    /\ held = <<>>
    /\ lastCall' = "ProcessNewBlock"
    /\ \E fAccepted \in BOOLEAN :
          /\ fStale' = (fStale \/ fAccepted)
          /\ fErrorSeen' = (fErrorSeen \/ ~fAccepted)
    /\ pc' = "sleep_rest"
    /\ UNCHANGED <<held, interruptNet, fMinting, fRegtest, fWalletLocked,
                   fPeersOnline, fSynced, fTimeAdvanced, locals, fCancelled,
                   exitReason, fSlept>>

\* 769-770
SleepRest == SleepOrReturn("sleep_rest", "sleep_timio")

\* 772-775
SleepTimio == SleepOrReturn("sleep_timio", "wait_unlock")

Minter ==
    \/ TimioLock \/ TimioUnlock \/ CheckMinting
    \/ WaitUnlock \/ SleepLocked
    \/ WaitPeers \/ SleepPeers
    \/ WaitSync \/ SleepSync
    \/ CreateLockWallet \/ CnbLockMain \/ CnbLockMempool
    \/ CnbReturnNull \/ CnbReturnTemplate \/ CnbThrow
    \/ CreateUnlock \/ CheckTemplate \/ SleepCancel
    \/ SignLock \/ SignBlockStep
    \/ PbfLock \/ PbfCheck \/ PbfProcess
    \/ SleepRest \/ SleepTimio

----------------------------------------------------------------------------
(* The environment of the minter thread.                                   *)

\* interruptNet(): the flag is raised and stays raised
Interrupt ==
    /\ ~interruptNet
    /\ interruptNet' = TRUE
    /\ UNCHANGED <<pc, held, fMinting, fRegtest, fWalletLocked, fPeersOnline,
                   fSynced, fTimeAdvanced, fStale, locals, history>>

\* the adjusted time passes the time of the last coinstake search
Tick ==
    /\ ~fTimeAdvanced
    /\ fTimeAdvanced' = TRUE
    /\ UNCHANGED <<pc, held, interruptNet, fMinting, fRegtest, fWalletLocked,
                   fPeersOnline, fSynced, fStale, locals, history>>

\* the user locks or unlocks the wallet
WalletToggle ==
    /\ fWalletLocked' = ~fWalletLocked
    /\ UNCHANGED <<pc, held, interruptNet, fMinting, fRegtest, fPeersOnline,
                   fSynced, fTimeAdvanced, fStale, locals, history>>

\* peers connect or disconnect
PeersToggle ==
    /\ fPeersOnline' = ~fPeersOnline
    /\ UNCHANGED <<pc, held, interruptNet, fMinting, fRegtest, fWalletLocked,
                   fSynced, fTimeAdvanced, fStale, locals, history>>

\* the chain catches up or falls behind
SyncToggle ==
    /\ fSynced' = ~fSynced
    /\ UNCHANGED <<pc, held, interruptNet, fMinting, fRegtest, fWalletLocked,
                   fPeersOnline, fTimeAdvanced, fStale, locals, history>>

\* another thread connects a block: it needs cs_main
NewTip ==
    /\ ~Holds(CS_MAIN)
    /\ pblocktemplate = "template"
    /\ ~fStale
    /\ fStale' = TRUE
    /\ UNCHANGED <<pc, held, interruptNet, fMinting, fRegtest, fWalletLocked,
                   fPeersOnline, fSynced, fTimeAdvanced, locals, history>>

----------------------------------------------------------------------------
(* The coinstake timestamp check.                                          *)

\* kernel.cpp 601-607
CheckCoinStakeTimestamp(nTimeBlock_, nTimeTx_) == nTimeBlock_ = nTimeTx_

\* no timestamp check is under way
TsRest ==
    /\ nTimeBlock = 0
    /\ nTimeTx = 0
    /\ tsResult = "none"

TsIdle ==
    /\ nStakeTimestampMask = 15
    /\ TsRest

TsInit ==
    /\ nStakeTimestampMask \in StakeTimestampMasks
    /\ nTimeBlock \in 0..MaxTs
    /\ nTimeTx \in 0..MaxTs
    /\ tsResult = "none"

\* a caller checks the pair it holds
TsCheck ==
    /\ tsResult = "none"
    /\ tsResult' = IF CheckCoinStakeTimestamp(nTimeBlock, nTimeTx)
                     THEN "true" ELSE "false"
    /\ UNCHANGED <<nStakeTimestampMask, nTimeBlock, nTimeTx>>

----------------------------------------------------------------------------
(* The mempool as CreateNewBlock reads it.  CreateNewBlock holds cs_main   *)
(* and m_mempool.cs from line 140 to its return, so the mempool and the    *)
(* chain do not change during a call.                                      *)

TxIds == 1..MaxTx

\* CTransactionRef(): the null reference of the placeholder entries
NullTx == 0
\* the reference to the coinbase transaction made at line 246
CoinbaseRef == -1
\* the reference to the coinstake transaction made at line 228
CoinstakeRef == -2

\* Mempool entries the model draws: fee (GetFee and GetModifiedFee, no
\* prioritisation), size (GetTxSize, the virtual size), weight
\* (GetTxWeight), sigops (GetSigOpCost), final (IsFinalTx at the next
\* height) and witness (HasWitness).  The virtual size of an entry is at
\* least a quarter of its weight (it is the quarter, rounded up, when
\* -bytespersigop is 0).
MempoolEntries ==
    { [fee |-> 200,  size |-> 100, weight |-> 400, sigops |-> 4,
       final |-> TRUE,  witness |-> TRUE],
      [fee |-> 2000, size |-> 100, weight |-> 397, sigops |-> 39800,
       final |-> TRUE,  witness |-> FALSE],
      [fee |-> 50,   size |-> 100, weight |-> 400, sigops |-> 0,
       final |-> TRUE,  witness |-> FALSE],
      [fee |-> 200,  size |-> 100, weight |-> 400, sigops |-> 4,
       final |-> FALSE, witness |-> FALSE] }

\* a transaction spends outputs of transactions that entered the mempool
\* before it
ParentGraphs ==
    { g \in [TxIds -> SUBSET TxIds] : \A t \in TxIds : \A p \in g[t] : p < t }

\* CTxMemPool::CalculateMemPoolAncestors without limits: every in-mempool
\* ancestor of the entry, the entry excluded
RECURSIVE CalculateMemPoolAncestors(_)
CalculateMemPoolAncestors(t) ==
    mpParents[t] \cup UNION { CalculateMemPoolAncestors(p) : p \in mpParents[t] }

\* CTxMemPool::CalculateDescendants: the entry and every in-mempool
\* descendant of it
CalculateDescendants(t) ==
    {t} \cup { d \in TxIds : t \in CalculateMemPoolAncestors(d) }

RECURSIVE SumOver(_, _)
SumOver(S, field) ==
    IF S = {} THEN 0
    ELSE LET t == CHOOSE x \in S : TRUE
         IN  mpEntry[t][field] + SumOver(S \ {t}, field)

\* the cached ancestor state of an entry
GetSizeWithAncestors(t) ==
    SumOver(CalculateMemPoolAncestors(t) \cup {t}, "size")
GetModFeesWithAncestors(t) ==
    SumOver(CalculateMemPoolAncestors(t) \cup {t}, "fee")
GetSigOpCostWithAncestors(t) ==
    SumOver(CalculateMemPoolAncestors(t) \cup {t}, "sigops")
GetCountWithAncestors(t) ==
    Cardinality(CalculateMemPoolAncestors(t) \cup {t})

\* CTxMemPoolModifiedEntry(iter): starts from the cached ancestor state
CTxMemPoolModifiedEntry(t) ==
    [iter |-> t,
     nSizeWithAncestors |-> GetSizeWithAncestors(t),
     nModFeesWithAncestors |-> GetModFeesWithAncestors(t),
     nSigOpCostWithAncestors |-> GetSigOpCostWithAncestors(t)]

\* the feerate an entry is scored by: the lower of its own feerate and the
\* feerate of the entry together with its ancestors, as <<fee, size>>
GetModFeeAndSize(a) ==
    LET f1 == mpEntry[a.iter].fee * a.nSizeWithAncestors
        f2 == a.nModFeesWithAncestors * mpEntry[a.iter].size
    IN  IF f1 > f2 THEN <<a.nModFeesWithAncestors, a.nSizeWithAncestors>>
        ELSE <<mpEntry[a.iter].fee, mpEntry[a.iter].size>>

\* the ancestor-score order: higher score first, equal scores by txid
CompareTxMemPoolEntryByAncestorFee(a, b) ==
    LET A  == GetModFeeAndSize(a)
        B  == GetModFeeAndSize(b)
        f1 == A[1] * B[2]
        f2 == B[1] * A[2]
    IN  IF f1 = f2 THEN a.iter < b.iter ELSE f1 > f2

\* m_mempool.mapTx.get<ancestor_score>(), from begin() to end()
AncestorScoreIndex ==
    [i \in 1..MaxTx |->
        CHOOSE t \in TxIds :
            Cardinality({ u \in TxIds \ {t} :
                CompareTxMemPoolEntryByAncestorFee(
                    CTxMemPoolModifiedEntry(u), CTxMemPoolModifiedEntry(t)) })
            = i - 1]

\* every mempool of MaxTx transactions
MempoolAny ==
    /\ mpParents \in ParentGraphs
    /\ mpEntry \in [TxIds -> MempoolEntries]
    /\ mapTx = AncestorScoreIndex
    /\ wtxid = <<>>

\* one mempool: a transaction, a transaction that spends it, and
\* transactions that are not final yet
MempoolPair ==
    /\ mpParents = [t \in TxIds |-> IF t = 2 THEN {1} ELSE {}]
    /\ mpEntry = [t \in TxIds |->
                    [fee |-> 200, size |-> 100, weight |-> 400, sigops |-> 4,
                     final |-> (t <= 2), witness |-> (t <= 2)]]
    /\ mapTx = AncestorScoreIndex
    /\ wtxid = <<>>

\* the mempool of the machines that do not assemble
MempoolIdle ==
    /\ mpParents = [t \in TxIds |-> {}]
    /\ mpEntry = [t \in TxIds |->
                    [fee |-> 200, size |-> 100, weight |-> 400, sigops |-> 4,
                     final |-> TRUE, witness |-> TRUE]]
    /\ mapTx = AncestorScoreIndex
    /\ wtxid = <<>>

----------------------------------------------------------------------------
(* The chain, the clock and the wallet as CreateNewBlock reads them.       *)

\* consensus parameters of main and of regtest
MainParams ==
    [nStakeTimestampMask |-> 15, nStakeMinDepth |-> 600,
     nStakeMinAge |-> 12 * 60 * 60]
RegtestParams ==
    [nStakeTimestampMask |-> 3, nStakeMinDepth |-> 0,
     nStakeMinAge |-> 1 * 60]
ConsensusParams == {MainParams, RegtestParams}

\* consensus.mTreasuryPayees: script and percentage, in map order
mTreasuryPayees == << [script |-> "treasurykey OP_CHECKSIG", pct |-> 100] >>

\* payee tables a std::map<CScript, int> can hold: the configured one,
\* three payees that share the payment, and payees that take a part of it
TreasuryPayeeTables ==
    { mTreasuryPayees,
      << [script |-> "treasurykey OP_CHECKSIG", pct |-> 25],
         [script |-> "treasurykey2 OP_CHECKSIG", pct |-> 25],
         [script |-> "treasurykey3 OP_CHECKSIG", pct |-> 50] >>,
      << [script |-> "treasurykey OP_CHECKSIG", pct |-> 33],
         [script |-> "treasurykey2 OP_CHECKSIG", pct |-> 33],
         [script |-> "treasurykey3 OP_CHECKSIG", pct |-> 34] >>,
      << [script |-> "treasurykey OP_CHECKSIG", pct |-> 10],
         [script |-> "treasurykey2 OP_CHECKSIG", pct |-> 15] >> }

\* values of GetTreasuryPayment: none, and payments that the percentages
\* do or do not divide
TreasuryPayments == {0, 50, 1000, 1001}

\* A stake coin of the wallet: its outpoint n, its value, whether the UTXO
\* set still has it (GetCoin), whether the active chain has a block at its
\* height, the time and height of that block, whether its kernel meets
\* the target at the block time (CheckStakeKernelHash with no drift), the
\* type Solver gives its script, whether the wallet has its key, whether
\* GetCoinAge succeeds, the reward GetBlockSubsidy gives, and whether
\* SignSignature succeeds.
StakeCoin(n) ==
    [n |-> n, nValue |-> 100, fInUtxo |-> TRUE, fIndexed |-> TRUE,
     nTimeFrom |-> 0, nHeightFrom |-> 0, fKernel |-> TRUE,
     whichType |-> "PUBKEY", fHaveKey |-> FALSE, fCoinAge |-> TRUE,
     nReward |-> 5, fSign |-> TRUE]

\* the coins the model draws wallets from, in outpoint order
StakeCoins ==
    << [StakeCoin(1) EXCEPT !.fKernel = FALSE],
       [StakeCoin(2) EXCEPT !.fInUtxo = FALSE],
       [StakeCoin(3) EXCEPT !.nTimeFrom = nStakeMinAge],
       [StakeCoin(4) EXCEPT !.whichType = "PUBKEYHASH"],
       [StakeCoin(5) EXCEPT !.whichType = "MULTISIG"],
       StakeCoin(6),
       [StakeCoin(7) EXCEPT !.whichType = "WITNESS_V0_KEYHASH",
                            !.fHaveKey = TRUE],
       [StakeCoin(8) EXCEPT !.nReward = 0],
       [StakeCoin(9) EXCEPT !.fSign = FALSE],
       [StakeCoin(10) EXCEPT !.fCoinAge = FALSE],
       [StakeCoin(11) EXCEPT !.fIndexed = FALSE],
       [StakeCoin(12) EXCEPT !.nHeightFrom = nHeight - 1] >>

\* the positions of StakeCoins
StakeCoinIds == 1..12

\* std::set<CInputCoin>: the chosen coins in outpoint order
RECURSIVE CoinsInOrder(_, _)
CoinsInOrder(S, i) ==
    IF i \notin StakeCoinIds THEN <<>>
    ELSE (IF i \in S THEN <<StakeCoins[i]>> ELSE <<>>) \o CoinsInOrder(S, i + 1)

\* the wallets of at most MaxCoins stake coins
StakeWallets ==
    { CoinsInOrder(S, 1) :
        S \in { T \in SUBSET StakeCoinIds : Cardinality(T) <= MaxCoins } }

\* the transaction CMutableTransaction() constructs
EmptyTx == [vin |-> <<>>, vout |-> <<>>]

\* no call of CreateCoinStake yet
NoStakeKernel == [fKernelFound |-> FALSE, tx |-> EmptyTx, nTime |-> 0]

\* the state a call does not change: the chain tip, the clock, the
\* wallet and the static nLastCoinStakeSearchTime
ChainEnvOf(params, offsets, wallets) ==
    /\ fWallet \in BOOLEAN
    /\ fWitnessEnabled \in BOOLEAN
    /\ nStakeMinAge = params.nStakeMinAge
    /\ nStakeMinDepth = params.nStakeMinDepth
    /\ nHeight = params.nStakeMinDepth + 2
    /\ nSubsidy = 50
    /\ nAdjustedTime \in { params.nStakeMinAge + d : d \in offsets }
    /\ nMedianTimePast \in
          { params.nStakeMinAge + d : d \in offsets }
          \cup { params.nStakeMinAge + params.nStakeTimestampMask + 1 }
    /\ nLastCoinStakeSearchTime \in
          { params.nStakeMinAge + d : d \in offsets }
    /\ nLastCoinStakeSearchTime <= nAdjustedTime
    /\ searchTimes = <<nLastCoinStakeSearchTime>>
    /\ fSelectStakeCoins \in BOOLEAN
    /\ setCoins \in wallets
    /\ (~fSelectStakeCoins => setCoins = <<>>)

\* the same with the treasury of the networks: the payee table every
\* network configures, no payment or a payment
StakeEnvOf(params, offsets, wallets) ==
    /\ ChainEnvOf(params, offsets, wallets)
    /\ nTreasuryPayment \in {0, 1000}
    /\ treasuryPayees = mTreasuryPayees

\* a call with a wallet on every network, at every instant, with every
\* wallet
StakeEnvAny ==
    /\ \E params \in ConsensusParams :
          /\ nStakeTimestampMask = params.nStakeTimestampMask
          /\ StakeEnvOf(params, 0..MaxTime, StakeWallets)
    /\ fWallet
    /\ fWitnessEnabled
    /\ nTreasuryPayment > 0

\* one network, one instant, a wallet with one coin whose kernel hits
StakeEnvSmall ==
    /\ nStakeTimestampMask = RegtestParams.nStakeTimestampMask
    /\ StakeEnvOf(RegtestParams, {0}, { <<StakeCoin(6)>> })
    /\ nTreasuryPayment = 0
    /\ nMedianTimePast = nAdjustedTime
    /\ fSelectStakeCoins

\* the chain, the clock and the wallet of the machines that do not
\* assemble
StakeEnvIdle ==
    /\ StakeEnvOf(MainParams, {0}, { <<>> })
    /\ fWallet
    /\ fWitnessEnabled
    /\ nTreasuryPayment = 0
    /\ nMedianTimePast = nAdjustedTime
    /\ fSelectStakeCoins

----------------------------------------------------------------------------
(* BlockAssembler.                                                         *)

WITNESS_SCALE_FACTOR == 4
MAX_BLOCK_WEIGHT == 4000000
MAX_BLOCK_SIGOPS_COST == 80000
MAX_CONSECUTIVE_FAILURES == 1000

Max(a, b) == IF a > b THEN a ELSE b
Min(a, b) == IF a < b THEN a ELSE b

\* values of options.nBlockMaxWeight: below the range, in it, above it
BlockMaxWeightOptions == {0, 5200, 4000000}

\* no call of CreateNewBlock has returned yet
NoPrevCall ==
    [fReturned |-> FALSE, sortIn |-> <<>>, sortOut |-> <<>>, wtxid |-> <<>>,
     template |-> <<>>, fClockMoved |-> FALSE]

\* BlockAssembler::BlockAssembler: the state after construction
AsmConstructed ==
    /\ apc = "idle"
    /\ blockMinFeeRate = 1
    /\ \E opt \in BlockMaxWeightOptions :
          nBlockMaxWeight = Max(4000, Min(MAX_BLOCK_WEIGHT - 4000, opt))
    /\ fProofOfStake = FALSE
    /\ fIncludeWitness = FALSE
    /\ inBlock = {}
    /\ entries = <<>>
    /\ vtx = <<>>
    /\ nBlockWeight = 0
    /\ nBlockSigOpsCost = 0
    /\ nBlockTx = 0
    /\ nFees = 0
    /\ mi = 1
    /\ mapModifiedTx = {}
    /\ failedTx = {}
    /\ nConsecutiveFailed = 0
    /\ fAssertFailed = FALSE
    /\ nTime = 0
    /\ pfPoSCancel = FALSE
    /\ coinbaseTx = EmptyTx
    /\ coinstakeTx = EmptyTx
    /\ stakeOutcome = "none"
    /\ stakeKernel = NoStakeKernel
    /\ nTimeAtStart = 0
    /\ fClockMoved = FALSE
    /\ asmResult = "none"
    /\ prevCall = NoPrevCall

\* the assembler of the machines that do not assemble
AsmIdle ==
    /\ MempoolIdle
    /\ StakeEnvIdle
    /\ AsmConstructed
    /\ nBlockMaxWeight = MAX_BLOCK_WEIGHT - 4000

config   == <<blockMinFeeRate, nBlockMaxWeight>>
block    == <<inBlock, entries, nBlockWeight, nBlockSigOpsCost, nBlockTx, nFees>>
packages == <<mi, mapModifiedTx, failedTx, nConsecutiveFailed>>
header   == <<nTime, pfPoSCancel, coinbaseTx, coinstakeTx, stakeOutcome,
              stakeKernel, nTimeAtStart, fClockMoved>>
clock    == <<nAdjustedTime, nLastCoinStakeSearchTime, searchTimes>>

\* FillTreasuryPayee without its test of the payment
FillTreasuryPayeeUntested(vout) ==
    vout \o [i \in 1..Len(treasuryPayees) |->
               [nValue |-> (nTreasuryPayment * treasuryPayees[i].pct) \div 100,
                scriptPubKey |-> treasuryPayees[i].script]]

\* FillTreasuryPayee
FillTreasuryPayee(vout) ==
    IF nTreasuryPayment > 0
    THEN vout \o [i \in 1..Len(treasuryPayees) |->
                    [nValue |-> (nTreasuryPayment * treasuryPayees[i].pct) \div 100,
                     scriptPubKey |-> treasuryPayees[i].script]]
    ELSE vout

\* resetBlock without the reset of nFees
resetBlockKeepingFees ==
    /\ inBlock' = {}
    /\ nBlockWeight' = 4000
    /\ nBlockSigOpsCost' = 400
    /\ nBlockTx' = 0
    /\ nFees' = nFees

\* resetBlock (fIncludeWitness is assigned again at line 191)
resetBlock ==
    /\ inBlock' = {}
    /\ nBlockWeight' = 4000
    /\ nBlockSigOpsCost' = 400
    /\ nBlockTx' = 0
    /\ nFees' = 0

\* CreateNewBlock, lines 130-195 up to the call of addPackageTxs, and the
\* first lines of addPackageTxs (393-408)
AsmStart ==
    /\ apc = "idle"
    /\ apc' = "select"
    /\ fProofOfStake' = fWallet
    /\ fIncludeWitness' = fWitnessEnabled
    /\ coinbaseTx' =
          [vin  |-> << [prevout |-> "null", scriptSig |-> <<>>] >>,
           vout |-> IF fWallet
                    THEN << [nValue |-> -1, scriptPubKey |-> "scriptPubKeyIn"] >>
                    ELSE FillTreasuryPayee(
                           << [nValue |-> nSubsidy,
                               scriptPubKey |-> "scriptPubKeyIn"] >>)]
    /\ entries' =
          IF fWallet
          THEN << [tx |-> NullTx, fees |-> -1, sigOpsCost |-> -1],
                  [tx |-> NullTx, fees |-> -1, sigOpsCost |-> -1] >>
          ELSE << [tx |-> NullTx, fees |-> -1, sigOpsCost |-> -1] >>
    /\ resetBlock
    /\ vtx' = <<>>
    /\ nTime' = nAdjustedTime
    /\ coinstakeTx' = EmptyTx
    /\ stakeOutcome' = "none"
    /\ stakeKernel' = NoStakeKernel
    /\ nTimeAtStart' = nAdjustedTime
    /\ fClockMoved' = FALSE
    /\ mi' = 1
    /\ mapModifiedTx' = {}
    /\ failedTx' = {}
    /\ nConsecutiveFailed' = 0
    /\ UNCHANGED <<config, fAssertFailed, pfPoSCancel, asmResult, wtxid, clock,
                   prevCall>>

\* the loop condition of addPackageTxs (line 410)
AtEnd == mi > Len(mapTx)
Looping == apc = "select" /\ (~AtEnd \/ mapModifiedTx # {})

\* SkipMapTxEntry
SkipMapTxEntry(it) ==
    \/ \E m \in mapModifiedTx : m.iter = it
    \/ it \in inBlock
    \/ it \in failedTx

\* mapModifiedTx.get<ancestor_score>().begin()
modit ==
    CHOOSE m \in mapModifiedTx :
        \A o \in mapModifiedTx \ {m} : CompareTxMemPoolEntryByAncestorFee(m, o)

\* lines 420-442: which entry to evaluate
fUsingModified ==
    IF AtEnd THEN TRUE
    ELSE /\ mapModifiedTx # {}
         /\ CompareTxMemPoolEntryByAncestorFee(
                modit, CTxMemPoolModifiedEntry(mapTx[mi]))

\* the entry evaluated, with the package values of lines 448-455
candidate ==
    IF fUsingModified THEN modit ELSE CTxMemPoolModifiedEntry(mapTx[mi])

\* CFeeRate::GetFee of blockMinFeeRate
GetFee(packageSize) == blockMinFeeRate * packageSize

\* TestPackage without its weight test
TestPackageSigOpsOnly(packageSize, packageSigOpsCost) ==
    ~(nBlockSigOpsCost + packageSigOpsCost >= MAX_BLOCK_SIGOPS_COST)

\* TestPackage
TestPackage(packageSize, packageSigOpsCost) ==
    /\ ~(nBlockWeight + WITNESS_SCALE_FACTOR * packageSize >= nBlockMaxWeight)
    /\ ~(nBlockSigOpsCost + packageSigOpsCost >= MAX_BLOCK_SIGOPS_COST)

\* lines 481-487: the ancestors not yet in the block, and the entry
PackageOf(iter) == (CalculateMemPoolAncestors(iter) \ inBlock) \cup {iter}

\* TestPackageTransactions
TestPackageTransactions(package) ==
    \A it \in package :
        /\ mpEntry[it].final
        /\ ~(~fIncludeWitness /\ mpEntry[it].witness)

\* the comparator with more ancestors first
CompareTxIterByDescendingCount(a, b) ==
    IF GetCountWithAncestors(a) # GetCountWithAncestors(b)
    THEN GetCountWithAncestors(a) > GetCountWithAncestors(b)
    ELSE a < b

\* CompareTxIterByAncestorCount: fewer ancestors first, then by txid
CompareTxIterByAncestorCount(a, b) ==
    IF GetCountWithAncestors(a) # GetCountWithAncestors(b)
    THEN GetCountWithAncestors(a) < GetCountWithAncestors(b)
    ELSE a < b

\* SortForBlock
SortForBlock(package) ==
    [i \in 1..Cardinality(package) |->
        CHOOSE t \in package :
            Cardinality({ u \in package \ {t} :
                CompareTxIterByAncestorCount(u, t) }) = i - 1]

\* the entry AddToBlock appends
TemplateEntry(it) ==
    [tx |-> it, fees |-> mpEntry[it].fee, sigOpsCost |-> mpEntry[it].sigops]

\* line 335 without its test
NeverAlreadyAdded(alreadyAdded, desc) == FALSE

\* line 335: a descendant that was added with the package is left alone
AlreadyAdded(alreadyAdded, desc) == desc \in alreadyAdded

\* UpdatePackagesForAdded: the modified set after every descendant of the
\* added entries had the added ancestors taken out of its ancestor state
UpdatePackagesForAdded(alreadyAdded, mod) ==
    LET touched ==
            { d \in UNION { CalculateDescendants(it) : it \in alreadyAdded } :
                ~AlreadyAdded(alreadyAdded, d) }
        start(d) ==
            IF \E m \in mod : m.iter = d
            THEN CHOOSE m \in mod : m.iter = d
            ELSE CTxMemPoolModifiedEntry(d)
        added(d) == { it \in alreadyAdded : d \in CalculateDescendants(it) }
        updated(d) ==
            [iter |-> d,
             nSizeWithAncestors |->
                 start(d).nSizeWithAncestors - SumOver(added(d), "size"),
             nModFeesWithAncestors |->
                 start(d).nModFeesWithAncestors - SumOver(added(d), "fee"),
             nSigOpCostWithAncestors |->
                 start(d).nSigOpCostWithAncestors - SumOver(added(d), "sigops")]
    IN  { m \in mod : m.iter \notin touched } \cup { updated(d) : d \in touched }

\* addPackageTxs returns: its locals go out of scope
ReturnFromAddPackageTxs ==
    /\ apc' = "sort"
    /\ mi' = 1
    /\ mapModifiedTx' = {}
    /\ failedTx' = {}
    /\ nConsecutiveFailed' = 0

\* lines 412-416: a stale entry of mapTx is passed over
AsmSkip ==
    /\ Looping
    /\ ~AtEnd
    /\ SkipMapTxEntry(mapTx[mi])
    /\ mi' = mi + 1
    /\ UNCHANGED <<apc, config, fProofOfStake, fIncludeWitness, block, vtx,
                   mapModifiedTx, failedTx, nConsecutiveFailed, fAssertFailed,
                   header, asmResult, wtxid, clock,
                   prevCall>>

\* line 446: the assertion fails and the process aborts
EvalAssertFails ==
    /\ apc' = "abort"
    /\ fAssertFailed' = TRUE
    /\ UNCHANGED <<block, packages>>

\* lines 457-460
EvalLowFee ==
    /\ ReturnFromAddPackageTxs
    /\ UNCHANGED <<block, fAssertFailed>>

\* lines 462-479
EvalTooBig ==
    /\ IF nConsecutiveFailed + 1 > MAX_CONSECUTIVE_FAILURES
          /\ nBlockWeight > nBlockMaxWeight - 4000
       THEN ReturnFromAddPackageTxs
       ELSE /\ mi' = (IF fUsingModified THEN mi ELSE mi + 1)
            /\ mapModifiedTx' =
                  (IF fUsingModified THEN mapModifiedTx \ {modit}
                   ELSE mapModifiedTx)
            /\ failedTx' =
                  (IF fUsingModified THEN failedTx \cup {candidate.iter}
                   ELSE failedTx)
            /\ nConsecutiveFailed' = nConsecutiveFailed + 1
            /\ apc' = apc
    /\ UNCHANGED <<block, fAssertFailed>>

\* lines 490-496 without the erase from the modified set
EvalNotFinalKeeping ==
    /\ mi' = (IF fUsingModified THEN mi ELSE mi + 1)
    /\ mapModifiedTx' = mapModifiedTx
    /\ failedTx' =
          (IF fUsingModified THEN failedTx \cup {candidate.iter} ELSE failedTx)
    /\ UNCHANGED <<apc, block, nConsecutiveFailed, fAssertFailed>>

\* lines 490-496
EvalNotFinal ==
    /\ mi' = (IF fUsingModified THEN mi ELSE mi + 1)
    /\ mapModifiedTx' =
          (IF fUsingModified THEN mapModifiedTx \ {modit} ELSE mapModifiedTx)
    /\ failedTx' =
          (IF fUsingModified THEN failedTx \cup {candidate.iter} ELSE failedTx)
    /\ UNCHANGED <<apc, block, nConsecutiveFailed, fAssertFailed>>

\* lines 498-514: the package is added
EvalAdd ==
    LET ancestors == PackageOf(candidate.iter)
        sortedEntries == SortForBlock(ancestors)
    IN  /\ entries' = entries \o
               [i \in 1..Len(sortedEntries) |-> TemplateEntry(sortedEntries[i])]
        /\ nBlockWeight' = nBlockWeight + SumOver(ancestors, "weight")
        /\ nBlockTx' = nBlockTx + Len(sortedEntries)
        /\ nBlockSigOpsCost' = nBlockSigOpsCost + SumOver(ancestors, "sigops")
        /\ nFees' = nFees + SumOver(ancestors, "fee")
        /\ inBlock' = inBlock \cup ancestors
        /\ mapModifiedTx' =
              UpdatePackagesForAdded(ancestors,
                  { m \in mapModifiedTx : m.iter \notin ancestors })
        /\ mi' = (IF fUsingModified THEN mi ELSE mi + 1)
        /\ nConsecutiveFailed' = 0
        /\ UNCHANGED <<apc, failedTx, fAssertFailed>>

\* lines 418-514: one iteration of the loop that evaluates an entry
AsmEvaluate ==
    /\ Looping
    /\ ~(~AtEnd /\ SkipMapTxEntry(mapTx[mi]))
    /\ IF candidate.iter \in inBlock
       THEN EvalAssertFails
       ELSE IF candidate.nModFeesWithAncestors < GetFee(candidate.nSizeWithAncestors)
       THEN EvalLowFee
       ELSE IF ~TestPackage(candidate.nSizeWithAncestors,
                            candidate.nSigOpCostWithAncestors)
       THEN EvalTooBig
       ELSE IF ~TestPackageTransactions(PackageOf(candidate.iter))
       THEN EvalNotFinal
       ELSE EvalAdd
    /\ UNCHANGED <<config, fProofOfStake, fIncludeWitness, vtx, header,
                   asmResult, wtxid, clock,
                   prevCall>>

\* line 410: the loop condition fails
AsmLoopEnd ==
    /\ apc = "select"
    /\ AtEnd
    /\ mapModifiedTx = {}
    /\ ReturnFromAddPackageTxs
    /\ UNCHANGED <<config, fProofOfStake, fIncludeWitness, block, vtx,
                   fAssertFailed, header, asmResult, wtxid, clock,
                   prevCall>>

\* the comparator of the canonical sort (lines 200-210): a is not a
\* spender of b, and a has the lower witness hash
CanonicalLess(w, a, b) ==
    LET txbIsInput == b.tx \in mpParents[a.tx]
    IN  ~txbIsInput /\ w[a.tx] < w[b.tx]

\* the arrangements of a sequence
Arrangements(s) ==
    { [i \in 1..Len(s) |-> s[f[i]]] :
        f \in { g \in [1..Len(s) -> 1..Len(s)] :
                  \A i, j \in 1..Len(s) : i # j => g[i] # g[j] } }

\* std::sort with a comparator: an arrangement in which no element
\* compares less than the one before it.  Under a strict weak order these
\* are the sorted arrangements; under any asymmetric comparator the
\* insertion sort that sorts short ranges ends in one of them.
StdSort(s, w) ==
    { p \in Arrangements(s) :
        \A i \in 1..(Len(p) - 1) : ~CanonicalLess(w, p[i + 1], p[i]) }

\* the witness hashes of the selected transactions, as ranks
WitnessHashes ==
    { w \in [inBlock -> 1..Cardinality(inBlock)] :
        \A a, b \in inBlock : a # b => w[a] # w[b] }

\* lines 197-216: the canonical sort, then the copy into the block
AsmSort ==
    /\ apc = "sort"
    /\ LET first == IF fProofOfStake THEN 2 ELSE 1
           range == SubSeq(entries, first + 1, Len(entries))
       IN  \E w \in WitnessHashes :
           \E p \in StdSort(range, w) :
               \* a transaction has one witness hash, and std::sort gives
               \* one result for one range and one comparator
               /\ (prevCall.fReturned /\ DOMAIN wtxid = inBlock) => w = wtxid
               /\ (prevCall.fReturned /\ range = prevCall.sortIn
                                      /\ w = prevCall.wtxid)
                      => p = prevCall.sortOut
               /\ prevCall' =
                     (IF prevCall.fReturned THEN prevCall
                      ELSE [prevCall EXCEPT !.sortIn = range, !.sortOut = p,
                                            !.wtxid = w])
               /\ wtxid' = w
               /\ entries' = SubSeq(entries, 1, first) \o p
               /\ vtx' = [i \in 1..Len(entries) |->
                             (SubSeq(entries, 1, first) \o p)[i].tx]
    /\ apc' = IF fProofOfStake THEN "stake" ELSE "finish"
    /\ UNCHANGED <<config, fProofOfStake, fIncludeWitness, inBlock,
                   nBlockWeight, nBlockSigOpsCost, nBlockTx, nFees, packages,
                   fAssertFailed, header, asmResult, clock>>

\* lines 545-546 left out
AlignTimeSkipped(t) == t

\* lines 545-546
RECURSIVE AlignTime(_)
AlignTime(t) ==
    IF BitAnd(t, nStakeTimestampMask) # 0 THEN AlignTime(t + 1) ELSE t

\* the tip CreateCoinStake reads at line 551: cs_main is held, it is
\* still the tip read at line 141
ChainActiveHeight == nHeight - 1

\* CreateCoinStake, lines 550-632: the coins from the i-th on, the block
\* time being t; the result is fKernelFound with the coinstake built
RECURSIVE TryCoins(_, _)
TryCoins(i, t) ==
    IF i > Len(setCoins) THEN [fKernelFound |-> FALSE, tx |-> EmptyTx]
    ELSE LET pcoin == setCoins[i] IN
    IF ChainActiveHeight # nHeight - 1
    THEN [fKernelFound |-> FALSE, tx |-> EmptyTx]
    ELSE IF ~pcoin.fInUtxo \/ ~pcoin.fIndexed
    THEN TryCoins(i + 1, t)
    ELSE IF \/ pcoin.nTimeFrom + nStakeMinAge > t
            \/ nHeight - pcoin.nHeightFrom < nStakeMinDepth
    THEN TryCoins(i + 1, t)
    ELSE IF ~pcoin.fKernel
    THEN TryCoins(i + 1, t)
    ELSE IF pcoin.whichType \in {"PUBKEYHASH", "WITNESS_V0_KEYHASH"}
            /\ ~pcoin.fHaveKey
    THEN TryCoins(i + 1, t)
    ELSE IF pcoin.whichType \notin {"PUBKEYHASH", "WITNESS_V0_KEYHASH", "PUBKEY"}
    THEN TryCoins(i + 1, t)
    ELSE IF ~pcoin.fCoinAge \/ pcoin.nReward <= 0 \/ ~pcoin.fSign
    THEN [fKernelFound |-> FALSE, tx |-> EmptyTx]
    ELSE [fKernelFound |-> TRUE,
          pcoin |-> pcoin,
          nHeightActive |-> ChainActiveHeight,
          tx |-> [vin  |-> << pcoin.n >>,
                  vout |-> FillTreasuryPayee(
                      << [nValue |-> 0, scriptPubKey |-> ""],
                         [nValue |-> pcoin.nValue + pcoin.nReward,
                          scriptPubKey |-> "pubkey OP_CHECKSIG"] >>)]]

\* CreateCoinStake: fKernelFound, the block time it leaves and the
\* coinstake
CreateCoinStake(t) ==
    IF fSelectStakeCoins
    THEN [nTime |-> AlignTime(t)] @@ TryCoins(1, AlignTime(t))
    ELSE [nTime |-> t, fKernelFound |-> FALSE, tx |-> EmptyTx]

\* line 224 without its test
StakeTimeUnchecked(t) == TRUE

\* line 224: the block time meets the timestamp protocol
StakeTimeAccepted(t) ==
    t > nMedianTimePast /\ BitAnd(t, nStakeTimestampMask) = 0

\* lines 218-238: the coinstake search; the clock may have advanced since
\* line 174
\* line 222 with >= for >
SearchDueOrEqual(nSearchTime) == nSearchTime >= nLastCoinStakeSearchTime

\* line 222: a search is made when the clock is past the last search
SearchDue(nSearchTime) == nSearchTime > nLastCoinStakeSearchTime

AsmStake ==
    /\ apc = "stake"
    /\ \E nSearchTime \in {nAdjustedTime, nAdjustedTime + 1} :
          LET fSearch == SearchDue(nSearchTime)
              stake   == CreateCoinStake(nTime)
              fFound  == fSearch /\ stake.fKernelFound
                                 /\ StakeTimeAccepted(stake.nTime)
              fCancel == ~fFound
          IN  /\ nAdjustedTime' = nSearchTime
              /\ nTime' = (IF fSearch THEN stake.nTime ELSE nTime)
              /\ nLastCoinStakeSearchTime' =
                    (IF fSearch THEN nSearchTime ELSE nLastCoinStakeSearchTime)
              /\ searchTimes' =
                    (IF fSearch THEN Append(searchTimes, nSearchTime)
                     ELSE searchTimes)
              /\ pfPoSCancel' = fCancel
              /\ stakeOutcome' =
                    (IF ~fSearch THEN "not searched"
                     ELSE IF stake.fKernelFound THEN "kernel" ELSE "no kernel")
              /\ stakeKernel' = (IF fSearch THEN stake ELSE NoStakeKernel)
              /\ fClockMoved' = (fClockMoved \/ nSearchTime # nAdjustedTime)
              /\ coinstakeTx' = (IF fFound THEN stake.tx ELSE EmptyTx)
              /\ coinbaseTx' =
                    (IF fFound
                     THEN [coinbaseTx EXCEPT
                             !.vout[1] = [nValue |-> 0, scriptPubKey |-> ""]]
                     ELSE coinbaseTx)
              /\ entries' =
                    (IF fFound THEN [entries EXCEPT ![2].tx = CoinstakeRef]
                     ELSE entries)
              /\ vtx' = (IF fFound THEN [vtx EXCEPT ![2] = CoinstakeRef] ELSE vtx)
              /\ apc' = (IF fCancel THEN "done" ELSE "finish")
              /\ asmResult' = (IF fCancel THEN "null" ELSE asmResult)
    /\ UNCHANGED <<config, fProofOfStake, fIncludeWitness, inBlock,
                   nBlockWeight, nBlockSigOpsCost, nBlockTx, nFees, packages,
                   fAssertFailed, wtxid, prevCall, nTimeAtStart>>

\* UpdateTime without the median time past
UpdateTimeWithoutMedian(nOldTime, now) ==
    IF nOldTime < now THEN now ELSE nOldTime

\* UpdateTime, lines 42-46: the block time it leaves, nOldTime being the
\* block time and now the adjusted time it reads
UpdateTime(nOldTime, now) ==
    LET nNewTime == Max(nMedianTimePast + 1, now)
    IN  IF nOldTime < nNewTime THEN nNewTime ELSE nOldTime

\* GetLegacySigOpCount of the coinbase: its scriptSig has no signature
\* operation, each output that pays to a key has one
RECURSIVE GetLegacySigOpCount(_)
GetLegacySigOpCount(vout) ==
    IF vout = <<>> THEN 0
    ELSE (IF Head(vout).scriptPubKey
                \in {"pubkey OP_CHECKSIG", "treasurykey OP_CHECKSIG",
                     "treasurykey2 OP_CHECKSIG", "treasurykey3 OP_CHECKSIG"}
          THEN 1 ELSE 0) + GetLegacySigOpCount(Tail(vout))

\* lines 240-268: the coinbase is completed and the block is tested;
\* TestBlockValidity accepts it or CreateNewBlock throws
AsmFinish ==
    /\ apc = "finish"
    /\ coinbaseTx' = [coinbaseTx EXCEPT !.vin[1].scriptSig = <<nHeight, "OP_0">>]
    /\ IF fProofOfStake
       THEN UNCHANGED <<nTime, nAdjustedTime, fClockMoved>>
       ELSE \E now \in {nAdjustedTime, nAdjustedTime + 1} :
               /\ nTime' = UpdateTime(nTime, now)
               /\ nAdjustedTime' = now
               /\ fClockMoved' = (fClockMoved \/ now # nAdjustedTime)
    /\ entries' =
          [entries EXCEPT
              ![1] = [tx |-> CoinbaseRef, fees |-> -nFees,
                      sigOpsCost |-> WITNESS_SCALE_FACTOR
                                       * GetLegacySigOpCount(coinbaseTx.vout)]]
    /\ vtx' = [vtx EXCEPT ![1] = CoinbaseRef]
    /\ apc' = "done"
    /\ \E fValid \in BOOLEAN :
          asmResult' = IF fValid THEN "template" ELSE "runtime_error"
    /\ UNCHANGED <<config, fProofOfStake, fIncludeWitness, inBlock,
                   nBlockWeight, nBlockSigOpsCost, nBlockTx, nFees, packages,
                   fAssertFailed, pfPoSCancel, coinstakeTx,
                   stakeOutcome, stakeKernel, wtxid, nLastCoinStakeSearchTime,
                   searchTimes, prevCall, nTimeAtStart>>

\* what CreateNewBlock returns: the entries with their fees and
\* signature operation costs, the block's transactions and its header
BlockTemplate ==
    [entries |-> entries, vtx |-> vtx, nTime |-> nTime,
     coinbaseTx |-> coinbaseTx, nFees |-> nFees,
     nBlockSigOpsCost |-> nBlockSigOpsCost, nBlockWeight |-> nBlockWeight,
     nBlockTx |-> nBlockTx]

\* CreateNewBlock is called again without a wallet after it returned a
\* template (std::move took it out of the assembler), on the assembler
\* that built it or on a new one with the same options; the mempool, the
\* tip and the adjusted time are those of the first call
AsmAgain ==
    /\ apc = "done"
    /\ asmResult = "template"
    /\ ~fProofOfStake
    /\ ~prevCall.fReturned
    /\ prevCall' = [prevCall EXCEPT !.fReturned = TRUE,
                                    !.template = BlockTemplate,
                                    !.fClockMoved = fClockMoved]
    /\ apc' = "idle"
    /\ asmResult' = "none"
    /\ entries' = <<>>
    /\ vtx' = <<>>
    /\ nTime' = 0
    /\ coinbaseTx' = EmptyTx
    /\ \E fNewAssembler \in BOOLEAN :
          IF fNewAssembler
          THEN /\ fProofOfStake' = FALSE
               /\ fIncludeWitness' = FALSE
               /\ inBlock' = {}
               /\ nBlockWeight' = 0
               /\ nBlockSigOpsCost' = 0
               /\ nBlockTx' = 0
               /\ nFees' = 0
          ELSE UNCHANGED <<fProofOfStake, fIncludeWitness, inBlock,
                           nBlockWeight, nBlockSigOpsCost, nBlockTx, nFees>>
    /\ UNCHANGED <<config, packages, fAssertFailed, pfPoSCancel, coinstakeTx,
                   stakeOutcome, stakeKernel, wtxid, clock, nTimeAtStart,
                   fClockMoved>>

\* the seconds the clock may run ahead of the latest initial time over the
\* calls of a process
MaxAhead == 2

\* the process calls CreateNewBlock again after a call returned, as the
\* minter's loop does (miner.cpp 730-737): a new assembler, fPoSCancel
\* false again.  The static nLastCoinStakeSearchTime keeps its value; the
\* adjusted time is where it was, a second later, or a second earlier
\* (the clock set back, the offset of the peers changed)
AsmNewCall ==
    /\ apc = "done"
    /\ \E now \in {nAdjustedTime - 1, nAdjustedTime, nAdjustedTime + 1} :
          /\ now >= nStakeMinAge
          /\ now < nStakeMinAge + MaxTime + MaxAhead
          /\ nAdjustedTime' = now
    /\ apc' = "idle"
    /\ asmResult' = "none"
    /\ fProofOfStake' = FALSE
    /\ fIncludeWitness' = FALSE
    /\ inBlock' = {}
    /\ entries' = <<>>
    /\ vtx' = <<>>
    /\ nBlockWeight' = 0
    /\ nBlockSigOpsCost' = 0
    /\ nBlockTx' = 0
    /\ nFees' = 0
    /\ mi' = 1
    /\ mapModifiedTx' = {}
    /\ failedTx' = {}
    /\ nConsecutiveFailed' = 0
    /\ nTime' = 0
    /\ pfPoSCancel' = FALSE
    /\ coinbaseTx' = EmptyTx
    /\ coinstakeTx' = EmptyTx
    /\ stakeOutcome' = "none"
    /\ stakeKernel' = NoStakeKernel
    /\ nTimeAtStart' = 0
    /\ fClockMoved' = FALSE
    /\ UNCHANGED <<config, fAssertFailed, wtxid, nLastCoinStakeSearchTime,
                   searchTimes, prevCall>>

----------------------------------------------------------------------------
(* The block index and the stake modifier of each entry.                   *)

\* consensus.nModifierInterval (every network)
nModifierInterval == 60
\* MODIFIER_INTERVAL_RATIO
MODIFIER_INTERVAL_RATIO == 3
\* the time of the genesis block (a multiple of nModifierInterval)
GenesisTime == 1608534000

\* 0x7374616b656d6f64 ("stakemod"), as the set of its bits that are 1; a
\* 64-bit stake modifier is the set of the positions of its 1 bits
StakeModSentinel ==
    {2, 5, 6, 8, 9, 10, 11, 13, 14, 16, 18, 19, 21, 22, 24, 26, 29, 30, 32,
     33, 35, 37, 38, 40, 45, 46, 50, 52, 53, 54, 56, 57, 60, 61, 62}

\* GetStakeModifierSelectionIntervalSection
GetStakeModifierSelectionIntervalSection(nSection) ==
    (nModifierInterval * 63)
        \div (63 + ((63 - nSection) * (MODIFIER_INTERVAL_RATIO - 1)))

RECURSIVE SelectionIntervalFrom(_)
SelectionIntervalFrom(nSection) ==
    IF nSection >= 64 THEN 0
    ELSE GetStakeModifierSelectionIntervalSection(nSection)
            + SelectionIntervalFrom(nSection + 1)

\* GetStakeModifierSelectionInterval
GetStakeModifierSelectionInterval == SelectionIntervalFrom(0)

\* CBlockIndex::GetStakeEntropyBit of an entry whose block has the
\* upgraded version: the last bit of the block hash
GetStakeEntropyBit(pindex) == pindex.hash % 2

\* GetLastStakeModifier: the position in c of the nearest entry at or
\* before p that generated its modifier, or of genesis
RECURSIVE LastStakeModifierAt(_, _)
LastStakeModifierAt(c, p) ==
    IF p > 1 /\ ~c[p].fGenerated THEN LastStakeModifierAt(c, p - 1) ELSE p

GetLastStakeModifier(c, p) ==
    LET pindex == c[LastStakeModifierAt(c, p)]
    IN  [fOk |-> pindex.fGenerated,
         nStakeModifier |-> pindex.nStakeModifier,
         nModifierTime |-> pindex.nTime]

\* lines 178-183: the entries from pindexPrev back while their time is at
\* least nSelectionIntervalStart, as pairs of time and hash
RECURSIVE CandidatesFrom(_, _, _)
CandidatesFrom(c, p, nSelectionIntervalStart) ==
    IF p >= 1 /\ c[p].nTime >= nSelectionIntervalStart
    THEN << [first |-> c[p].nTime, second |-> c[p].hash] >>
            \o CandidatesFrom(c, p - 1, nSelectionIntervalStart)
    ELSE <<>>

\* lines 187-188: the outcomes of the shuffle, i running down from the
\* last position while it is above the second, GetRand(i) below i
RECURSIVE ShuffleFrom(_, _)
ShuffleFrom(i, v) ==
    IF i < 3 THEN {v}
    ELSE UNION { ShuffleFrom(i - 1, [v EXCEPT ![i] = v[j], ![j] = v[i]]) :
                    j \in 1..(i - 1) }

\* the comparator of lines 190-204 without the comparison of the hashes
TimestampOnlyLess(a, b) == a.first < b.first

\* the comparator of lines 190-204: by time, then by block hash, limbs
\* compared from the most significant one
TimestampLess(a, b) ==
    IF a.first # b.first THEN a.first < b.first ELSE a.second < b.second

\* sort (line 190): the arrangements of v in which no element compares
\* less than an earlier one, built from the positions S still to place
RECURSIVE SortFrom(_, _)
SortFrom(v, S) ==
    IF S = {} THEN { <<>> }
    ELSE UNION { { <<v[i]>> \o q : q \in SortFrom(v, S \ {i}) } :
                    i \in { i \in S :
                              \A j \in S : ~TimestampLess(v[j], v[i]) } }

SortByTimestamp(v) == SortFrom(v, 1..Len(v))

\* LookupBlockIndex
LookupBlockIndex(c, hash) == c[CHOOSE p \in 1..Len(c) : c[p].hash = hash]

RECURSIVE ModifierMix(_)
ModifierMix(nStakeModifier) ==
    IF nStakeModifier = {} THEN 0
    ELSE LET b == CHOOSE x \in nStakeModifier : TRUE
         IN  ((b + 1) * (b + 3) + ModifierMix(nStakeModifier \ {b})) % 4093

\* lines 86-95: the selection hash of a candidate, a fixed function of the
\* block hash and the previous modifier that stands for the double SHA-256
\* of the two; twelve bits stand for the 256, and the shift that favours
\* proof-of-stake blocks is by four of them
SelectionHash(pindex, nStakeModifierPrev) ==
    LET hashSelection ==
            (pindex.hash * 1103 + ModifierMix(nStakeModifierPrev) * 733 + 977)
                % 4096
    IN  IF pindex.fProofOfStake THEN hashSelection \div 16 ELSE hashSelection

\* SelectBlockFromCandidates, from the k-th candidate on
RECURSIVE SelectBlockFrom(_, _, _, _, _, _, _, _, _)
SelectBlockFrom(c, v, k, mapSelectedBlocks, nSelectionIntervalStop, nStakeModifierPrev, fSelected, hashBest, pindexSelected) ==
    IF k > Len(v)
    THEN [fSelected |-> fSelected, pindexSelected |-> pindexSelected]
    ELSE LET pindex == LookupBlockIndex(c, v[k].second)
             hashSelection == SelectionHash(pindex, nStakeModifierPrev)
         IN  IF fSelected /\ pindex.nTime > nSelectionIntervalStop
             THEN [fSelected |-> fSelected, pindexSelected |-> pindexSelected]
             ELSE IF pindex.hash \in mapSelectedBlocks
             THEN SelectBlockFrom(c, v, k + 1, mapSelectedBlocks,
                                  nSelectionIntervalStop, nStakeModifierPrev,
                                  fSelected, hashBest, pindexSelected)
             ELSE IF fSelected /\ hashSelection < hashBest
             THEN SelectBlockFrom(c, v, k + 1, mapSelectedBlocks,
                                  nSelectionIntervalStop, nStakeModifierPrev,
                                  TRUE, hashSelection, pindex)
             ELSE IF ~fSelected
             THEN SelectBlockFrom(c, v, k + 1, mapSelectedBlocks,
                                  nSelectionIntervalStop, nStakeModifierPrev,
                                  TRUE, hashSelection, pindex)
             ELSE SelectBlockFrom(c, v, k + 1, mapSelectedBlocks,
                                  nSelectionIntervalStop, nStakeModifierPrev,
                                  fSelected, hashBest, pindexSelected)

SelectBlockFromCandidates(c, v, mapSelectedBlocks, nSelectionIntervalStop, nStakeModifierPrev) ==
    SelectBlockFrom(c, v, 1, mapSelectedBlocks, nSelectionIntervalStop,
                    nStakeModifierPrev, FALSE, 0, [hash |-> 0])

\* line 218 with the bit written at position 0
WithEntropyBitAtZero(nStakeModifierNew, pindex, nRound) ==
    IF GetStakeEntropyBit(pindex) = 1
    THEN nStakeModifierNew \cup {0} ELSE nStakeModifierNew

\* line 218: nStakeModifierNew |= GetStakeEntropyBit() << nRound
WithEntropyBit(nStakeModifierNew, pindex, nRound) ==
    IF GetStakeEntropyBit(pindex) = 1
    THEN nStakeModifierNew \cup {nRound} ELSE nStakeModifierNew

\* line 210 with 64 rounds whatever the number of candidates
RoundLimitFixed(v) == 64

\* line 210: the number of rounds
RoundLimit(v) == Min(64, Len(v))

\* lines 207-224: the rounds from nRound on; rounds is the history of the
\* rounds made: the stop, the blocks selected before, the block selected
RECURSIVE SelectRounds(_, _, _, _, _, _, _)
SelectRounds(c, v, nRound, nSelectionIntervalStop, mapSelectedBlocks, nStakeModifierNew, nStakeModifierPrev) ==
    IF nRound >= RoundLimit(v)
    THEN [fOk |-> TRUE, nStakeModifier |-> nStakeModifierNew,
          fGeneratedStakeModifier |-> TRUE, rounds |-> <<>>]
    ELSE LET stop == nSelectionIntervalStop
                        + GetStakeModifierSelectionIntervalSection(nRound)
             sel  == SelectBlockFromCandidates(c, v, mapSelectedBlocks, stop,
                                               nStakeModifierPrev)
         IN  IF ~sel.fSelected
             THEN [fOk |-> FALSE, nStakeModifier |-> nStakeModifierPrev,
                   fGeneratedStakeModifier |-> FALSE, rounds |-> <<>>]
             ELSE LET rest ==
                          SelectRounds(c, v, nRound + 1, stop,
                              mapSelectedBlocks \cup {sel.pindexSelected.hash},
                              WithEntropyBit(nStakeModifierNew,
                                             sel.pindexSelected, nRound),
                              nStakeModifierPrev)
                  IN  [rest EXCEPT !.rounds =
                          << [nSelectionIntervalStop |-> stop,
                              mapSelectedBlocks |-> mapSelectedBlocks,
                              pindexSelected |-> sel.pindexSelected] >> \o @]

\* line 151 with > for >=
KeepsModifierStrictly(nModifierTime, nTimePrev) ==
    nModifierTime \div nModifierInterval > nTimePrev \div nModifierInterval

\* line 151: the last modifier was generated in the interval of the
\* predecessor's time, or later
KeepsModifier(nModifierTime, nTimePrev) ==
    nModifierTime \div nModifierInterval >= nTimePrev \div nModifierInterval

\* line 137 without the test of the network
FirstBlockOnly(c) == Len(c) = 1

\* line 137: pindexPrev is genesis, or the network is regtest
FirstBlockOrRegtest(c) == Len(c) = 1 \/ fRegtest

\* ComputeNextStakeModifier for an entry whose pprev is the last entry of
\* c (none when c is empty): the results it can return, one for each
\* outcome of the shuffle and of the sort
ComputeNextStakeModifier(c) ==
    IF c = <<>>
    THEN { [fOk |-> TRUE, nStakeModifier |-> {},
            fGeneratedStakeModifier |-> TRUE] }
    ELSE IF FirstBlockOrRegtest(c)
    THEN { [fOk |-> TRUE, nStakeModifier |-> StakeModSentinel,
            fGeneratedStakeModifier |-> TRUE] }
    ELSE LET pindexPrev == c[Len(c)]
             last == GetLastStakeModifier(c, Len(c))
             nSelectionIntervalStart ==
                 (pindexPrev.nTime \div nModifierInterval) * nModifierInterval
                     - GetStakeModifierSelectionInterval
             candidates == CandidatesFrom(c, Len(c), nSelectionIntervalStart)
         IN  IF ~last.fOk
             THEN { [fOk |-> FALSE, nStakeModifier |-> {},
                     fGeneratedStakeModifier |-> FALSE] }
             ELSE IF KeepsModifier(last.nModifierTime, pindexPrev.nTime)
             THEN { [fOk |-> TRUE, nStakeModifier |-> last.nStakeModifier,
                     fGeneratedStakeModifier |-> FALSE] }
             ELSE { SelectRounds(c, vSortedByTimestamp, 0,
                                 nSelectionIntervalStart, {}, {},
                                 last.nStakeModifier)
                        @@ [vSortedByTimestamp |-> vSortedByTimestamp,
                            nSelectionIntervalStart |-> nSelectionIntervalStart,
                            nStakeModifierPrev |-> last.nStakeModifier] :
                      vSortedByTimestamp \in
                          UNION { SortByTimestamp(shuffled) :
                                    shuffled \in
                                        ShuffleFrom(Len(candidates), candidates) } }

RECURSIVE SortedTimes(_)
SortedTimes(S) ==
    IF S = {} THEN <<>>
    ELSE LET p == CHOOSE x \in S : \A y \in S : x[1] < y[1] \/ (x[1] = y[1] /\ x[2] <= y[2])
         IN  <<p[1]>> \o SortedTimes(S \ {p})

\* CBlockIndex::GetMedianTimePast of the last entry of c: the median of
\* the times of the last eleven entries
GetMedianTimePast(c) ==
    LET nFirst == Max(1, Len(c) - 10)
        times  == SortedTimes({ <<c[p].nTime, p>> : p \in nFirst..Len(c) })
    IN  times[(Len(times) \div 2) + 1]

\* the time of a block on top of c: later than the median time past, here
\* near the time of the tip; the genesis block has its fixed time
BlockTimes(c) ==
    IF c = <<>> THEN {GenesisTime}
    ELSE { t \in { c[Len(c)].nTime + d : d \in {-40, 40, 80} } :
             t > GetMedianTimePast(c) }

\* the hash of a block at a height: unique, either entropy bit, and not
\* ordered as the heights are
BlockHashes(nHeightOf) ==
    { 2 * (((3 * nHeightOf) % 7) + 1) + b : b \in {0, 1} }

\* the block index before the genesis block is loaded
ChainEmpty ==
    /\ chain = <<>>
    /\ modOutcomes = {}

\* the time of a block found after a pause longer than the selection
\* interval
LateBlockTimes(c) ==
    IF c = <<>> THEN {}
    ELSE { c[Len(c)].nTime + nModifierInterval * 36 - 40 }

\* a block with one of the given times is added on top of the tip: its
\* index entry gets the modifier ComputeNextStakeModifier returns (a block
\* for which it fails gets no entry); a proof-of-stake block has a time
\* the timestamp mask accepts
ChainAppendAt(times) ==
    /\ Len(chain) < MaxBlocks
    /\ LET results == ComputeNextStakeModifier(chain)
       IN  /\ modOutcomes' = results
           /\ \E r \in results, t \in times,
                 h \in BlockHashes(Len(chain)), fPoS \in BOOLEAN :
                 /\ r.fOk
                 /\ fPoS => (Len(chain) >= 2 /\ BitAnd(t, 15) = 0)
                 /\ chain' = Append(chain,
                       [nHeight |-> Len(chain), hash |-> h, nTime |-> t,
                        fProofOfStake |-> fPoS,
                        nStakeModifier |-> r.nStakeModifier,
                        fGenerated |-> r.fGeneratedStakeModifier])

\* a block is added on top of the tip, near the time of the tip
ChainAppend == ChainAppendAt(BlockTimes(chain))

\* a block is added on top of the tip after a long pause
ChainAppendLate == ChainAppendAt(LateBlockTimes(chain))

----------------------------------------------------------------------------
(* The stake kernel: CheckStakeKernelHash, searching and verifying.        *)

\* 2 to the power n
RECURSIVE Pow2(_)
Pow2(n) == IF n = 0 THEN 1 ELSE 2 * Pow2(n - 1)

\* an arith_uint256 holds ArithDigits digits of two bits where the source
\* holds 32 bytes; its arithmetic is modulo ArithModulus
ArithModulus == Pow2(2 * ArithDigits)

\* a compact target of nSize digits with the mantissa nWord (compact
\* targets have a mantissa of three digits, the highest bit its sign)
Compact(nSize, nWord) == nSize * 64 + nWord

\* arith_uint256::SetCompact
SetCompact(nCompact) ==
    LET nSize == nCompact \div 64
        nWord == nCompact % 32
    IN  [bn |-> IF nSize <= 3
                THEN nWord \div Pow2(2 * (3 - nSize))
                ELSE (nWord * Pow2(2 * Min(nSize - 3, ArithDigits)))
                        % ArithModulus,
         fNegative |-> nWord # 0 /\ (nCompact \div 32) % 2 = 1,
         fOverflow |-> nWord # 0 /\ (\/ nSize > ArithDigits + 2
                                     \/ (nWord > 3 /\ nSize > ArithDigits + 1)
                                     \/ (nWord > 15 /\ nSize > ArithDigits))]

\* the parameters the kernel reads, with the values of the main network:
\* powLimit[0] has the mantissa 0x00ffff one digit below the full width,
\* the values before and after the upgrades are the ones configured
MainKernelParams(nMandatoryUpgradeBlock) ==
    [fRegtest |-> FALSE,
     nStakeTimestampMask |-> MainParams.nStakeTimestampMask,
     nStakeMinAge |-> << MainParams.nStakeMinAge, MainParams.nStakeMinAge >>,
     nStakeMinDepth |-> << MainParams.nStakeMinDepth, MainParams.nStakeMinDepth >>,
     nMandatoryUpgradeBlock |-> nMandatoryUpgradeBlock,
     powLimit |-> SetCompact(Compact(ArithDigits - 1, 15)).bn,
     hashGenesisBlock |->
        "0000004b69b3e7881690ee5c8b437471e03f59d1179e2e36e85fc742c8f8c9f0"]

\* the same with the values of regtest: powLimit[0] has the mantissa
\* 0x7fffff at the full width
RegtestKernelParams(nMandatoryUpgradeBlock) ==
    [fRegtest |-> TRUE,
     nStakeTimestampMask |-> RegtestParams.nStakeTimestampMask,
     nStakeMinAge |-> << RegtestParams.nStakeMinAge, RegtestParams.nStakeMinAge >>,
     nStakeMinDepth |-> << RegtestParams.nStakeMinDepth, RegtestParams.nStakeMinDepth >>,
     nMandatoryUpgradeBlock |-> nMandatoryUpgradeBlock,
     powLimit |-> SetCompact(Compact(ArithDigits, 31)).bn,
     hashGenesisBlock |->
        "30ba5e0e1ec3cdaf7678d40e39cb883bee8ba928037974767ffcfa8127e0f6be"]

\* nMandatoryUpgradeBlock: both upgrades behind every block, the second one
\* still ahead, both ahead
UpgradeHeights == { <<0, 0>>, <<0, 100000>>, <<100000, 100000>> }

\* an entry of the block index
IndexEntry(nHeightOf, nTimeOf, hash, nStakeModifier, fGenerated) ==
    [nHeight |-> nHeightOf, nTime |-> GenesisTime + nTimeOf, hash |-> hash,
     fProofOfStake |-> nHeightOf > 1,
     nStakeModifier |-> nStakeModifier, fGenerated |-> fGenerated]

\* a main chain of 1260 blocks: genesis, and of the later entries the ones
\* that generated a modifier, the ones a staked coin is in, and the tip (the
\* walks of the kernel pass over an entry that did not generate a modifier)
MainKernelChain ==
    << IndexEntry(0, 0, 1, {}, TRUE),
       IndexEntry(1, 80, 2, StakeModSentinel, TRUE),
       IndexEntry(100, 8000, 3, StakeModSentinel, FALSE),
       IndexEntry(600, 48080, 4, StakeModSentinel, FALSE),
       IndexEntry(601, 48081, 5, StakeModSentinel, FALSE),
       IndexEntry(650, 50000, 6, {0, 3}, TRUE),
       IndexEntry(652, 50160, 7, {1, 2, 5}, TRUE),
       IndexEntry(660, 60000, 8, {1, 2, 5}, FALSE),
       IndexEntry(661, 60080, 9, {1, 2, 5}, FALSE),
       IndexEntry(1259, 91200, 10, {1, 2, 5}, FALSE) >>

\* a regtest chain of five blocks
RegtestKernelChain ==
    << IndexEntry(0, 0, 1, {}, TRUE),
       IndexEntry(1, 64, 2, StakeModSentinel, TRUE),
       IndexEntry(2, 128, 3, StakeModSentinel, TRUE),
       IndexEntry(3, 2240, 4, StakeModSentinel, TRUE),
       IndexEntry(4, 2304, 5, StakeModSentinel, TRUE) >>

\* line 313 without its test
UpdatesModifierTimeAlways(pindex) == TRUE

\* line 313: the entry generated its modifier
UpdatesModifierTime(pindex) == pindex.fGenerated

\* line 294 without its test
NeverTooOld(nStakeModifierTime, nAge, nTimeTxOf) == FALSE

\* line 294: the best block is more than the minimum age less a selection
\* interval older than the kernel
TooOldForStake(nStakeModifierTime, nAge, nTimeTxOf) ==
    nStakeModifierTime + nAge - GetStakeModifierSelectionInterval <= nTimeTxOf

\* GetKernelStakeModifierV05, the walk back from position p: the answer,
\* the modifier and the two out-parameters as the call leaves them, and
\* the number of turns of the loop
RECURSIVE ModifierV05From(_, _, _, _, _, _, _)
ModifierV05From(c, p, nStakeModifierHeight, nStakeModifierTime, nTimeTxOf, nAge, nTurns) ==
    IF nStakeModifierTime + nAge - GetStakeModifierSelectionInterval
          > nTimeTxOf
    THEN IF p = 1
         THEN [fOk |-> FALSE, nStakeModifier |-> {},
               nStakeModifierHeight |-> nStakeModifierHeight,
               nStakeModifierTime |-> nStakeModifierTime,
               what |-> "reached genesis block", nTurns |-> nTurns + 1]
         ELSE ModifierV05From(c, p - 1,
                  IF UpdatesModifierTime(c[p - 1]) THEN c[p - 1].nHeight
                  ELSE nStakeModifierHeight,
                  IF UpdatesModifierTime(c[p - 1]) THEN c[p - 1].nTime
                  ELSE nStakeModifierTime,
                  nTimeTxOf, nAge, nTurns + 1)
    ELSE [fOk |-> TRUE, nStakeModifier |-> c[p].nStakeModifier,
          nStakeModifierHeight |-> nStakeModifierHeight,
          nStakeModifierTime |-> nStakeModifierTime,
          what |-> "", nTurns |-> nTurns]

\* GetKernelStakeModifierV05 with pindexPrev the last entry of c
GetKernelStakeModifierV05(c, nTimeTxOf, params) ==
    IF TooOldForStake(c[Len(c)].nTime, params.nStakeMinAge[2], nTimeTxOf)
    THEN [fOk |-> FALSE, nStakeModifier |-> {},
          nStakeModifierHeight |-> c[Len(c)].nHeight,
          nStakeModifierTime |-> c[Len(c)].nTime,
          what |-> "too old for stake", nTurns |-> 0]
    ELSE ModifierV05From(c, Len(c), c[Len(c)].nHeight, c[Len(c)].nTime,
                         nTimeTxOf, params.nStakeMinAge[2], 0)

\* GetKernelStakeModifierV03, the walk forward from position p
RECURSIVE ModifierV03From(_, _, _, _)
ModifierV03From(c, p, nStakeModifierTime, nTimeFrom) ==
    IF nStakeModifierTime < nTimeFrom + GetStakeModifierSelectionInterval
    THEN IF p = Len(c)
         THEN [fOk |-> FALSE, nStakeModifier |-> {}]
         ELSE ModifierV03From(c, p + 1,
                  IF c[p + 1].fGenerated THEN c[p + 1].nTime
                  ELSE nStakeModifierTime,
                  nTimeFrom)
    ELSE [fOk |-> TRUE, nStakeModifier |-> c[p].nStakeModifier]

\* GetKernelStakeModifierV03 with pindexPrev the tip of the active chain c
\* and the coin's block at position pFrom
GetKernelStakeModifierV03(c, pFrom) ==
    ModifierV03From(c, pFrom, c[pFrom].nTime, c[pFrom].nTime)

\* ---- GetKernelStakeModifierV03 over a block index with a side branch ----

\* the longest active chain and the longest side branch of the block
\* indexes the walk is followed on
MaxActive == 4
MaxBranch == 2

\* the seconds between a block and its parent: a usual spacing, and a pause
\* longer than the selection interval
WalkSpacings == {64, 2200}

\* a CBlockIndex*: an entry of the active chain, an entry of the side
\* branch, or nullptr
ActiveIndex(p) == [on |-> "active", at |-> p]
BranchIndex(k) == [on |-> "branch", at |-> k]
NullIndex == [on |-> "null", at |-> 0]

\* the index entry a pointer refers to
EntryAt(c, br, ref) ==
    IF ref.on = "active" THEN c[ref.at] ELSE br.entries[ref.at]

\* CBlockIndex::pprev
PrevIndex(br, ref) ==
    IF ref.on = "active"
    THEN IF ref.at = 1 THEN NullIndex ELSE ActiveIndex(ref.at - 1)
    ELSE IF ref.at = 1 THEN ActiveIndex(br.fork) ELSE BranchIndex(ref.at - 1)

\* CChain::Contains for the active chain
ChainActiveContains(ref) == ref.on = "active"

\* CChain::Next for the active chain
ChainActiveNext(c, ref) ==
    IF ChainActiveContains(ref) /\ ref.at < Len(c)
    THEN ActiveIndex(ref.at + 1)
    ELSE NullIndex

\* the entry and its ancestors
RECURSIVE AncestorsOrSelf(_, _)
AncestorsOrSelf(br, ref) ==
    IF ref = NullIndex THEN {}
    ELSE {ref} \cup AncestorsOrSelf(br, PrevIndex(br, ref))

\* a block on top of a parent entry: the next height, a later time, a
\* modifier of its own
ChildEntry(parent, hash, nSpacing, fGenerated) ==
    [nHeight |-> parent.nHeight + 1, nTime |-> parent.nTime + nSpacing,
     hash |-> hash, fProofOfStake |-> parent.nHeight + 1 > 1,
     nStakeModifier |-> {hash}, fGenerated |-> fGenerated]

\* the sequences of n blocks on top of a parent entry, their hashes
\* counted from hashBase
RECURSIVE BlocksOnTop(_, _, _)
BlocksOnTop(parent, hashBase, n) ==
    IF n = 0 THEN {<<>>}
    ELSE UNION { { <<ChildEntry(parent, hashBase + parent.nHeight + 1, d, g)>>
                      \o rest :
                    rest \in BlocksOnTop(
                        ChildEntry(parent, hashBase + parent.nHeight + 1, d, g),
                        hashBase, n - 1) } :
                 d \in WalkSpacings, g \in BOOLEAN }

\* the active chains of the walk: genesis and up to MaxActive - 1 blocks
WalkChains ==
    UNION { { <<IndexEntry(0, 0, 1, {}, TRUE)>> \o blocks :
                blocks \in BlocksOnTop(IndexEntry(0, 0, 1, {}, TRUE), 1, n) } :
            n \in 0..(MaxActive - 1) }

\* the side branches off an active chain: any parent, up to MaxBranch
\* blocks
WalkBranches(c) ==
    UNION { { [fork |-> f, entries |-> blocks] :
                blocks \in BlocksOnTop(c[f], 20, n) } :
            f \in 1..Len(c), n \in 0..MaxBranch }

\* every entry of the block index
IndexEntries(c, br) ==
    { ActiveIndex(p) : p \in 1..Len(c) }
        \cup { BranchIndex(k) : k \in 1..Len(br.entries) }

\* lines 346-350: the entries from pindexPrev back that are not in the
\* active chain, at most nDepth of them, latest first
RECURSIVE TmpChainBack(_, _, _, _)
TmpChainBack(br, it, i, nDepth) ==
    IF i <= nDepth /\ ~ChainActiveContains(it)
    THEN <<it>> \o TmpChainBack(br, PrevIndex(br, it), i + 1, nDepth)
    ELSE <<>>

\* std::reverse
RECURSIVE Reversed(_)
Reversed(s) == IF s = <<>> THEN <<>> ELSE Reversed(Tail(s)) \o <<Head(s)>>

\* no call of GetKernelStakeModifierV03
NoWalk ==
    [pc |-> "none", pindexPrev |-> NullIndex, pindexFrom |-> NullIndex,
     tmpChain |-> <<>>, n |-> 0, pindex |-> NullIndex,
     nStakeModifier |-> {}, nStakeModifierHeight |-> 0,
     nStakeModifierTime |-> 0, visited |-> {}, nReads |-> 0,
     fReadPastEnd |-> FALSE, result |-> "none"]

WalkIdle ==
    /\ sideBranch = [fork |-> 1, entries |-> <<>>]
    /\ walk = NoWalk

\* GetKernelStakeModifierV03 is called for an entry pindexPrev of the block
\* index and the block pindexFrom of a coin, which is pindexPrev or an
\* ancestor of it
WalkCalled ==
    /\ chain \in WalkChains
    /\ sideBranch \in WalkBranches(chain)
    /\ \E prev \in IndexEntries(chain, sideBranch) :
          \E from \in AncestorsOrSelf(sideBranch, prev) :
              walk = [NoWalk EXCEPT !.pc = "called", !.pindexPrev = prev,
                                    !.pindexFrom = from]

\* lines 332-356: the locals before the loop
WalkEnter ==
    /\ walk.pc = "called"
    /\ LET pindexFrom == EntryAt(chain, sideBranch, walk.pindexFrom)
           pindexPrev == EntryAt(chain, sideBranch, walk.pindexPrev)
           nDepth == pindexPrev.nHeight - (pindexFrom.nHeight - 1)
       IN  walk' = [walk EXCEPT
                       !.pc = "loop",
                       !.nStakeModifier = {},
                       !.nStakeModifierHeight = pindexFrom.nHeight,
                       !.nStakeModifierTime = pindexFrom.nTime,
                       !.tmpChain =
                           Reversed(TmpChainBack(sideBranch, walk.pindexPrev,
                                                 1, nDepth)),
                       !.n = 0,
                       !.pindex = walk.pindexFrom]
    /\ UNCHANGED <<chain, sideBranch>>

\* lines 358-377: the test of the loop and one turn of it.  Line 361 reads
\* tmpChain[n++] before line 362 compares n with the size: with n equal to
\* the size the read is past the last element, its value is undefined, and
\* the call either goes on to line 362, which returns, or is stopped by a
\* checked operator[]
WalkTurn ==
    /\ walk.pc = "loop"
    /\ LET pindexFrom == EntryAt(chain, sideBranch, walk.pindexFrom)
           old_pindex == EntryAt(chain, sideBranch, walk.pindex)
           fTmpChain ==
               /\ walk.tmpChain # <<>>
               /\ old_pindex.nHeight
                     >= EntryAt(chain, sideBranch, walk.tmpChain[1]).nHeight - 1
           fPastEnd == fTmpChain /\ walk.n >= Len(walk.tmpChain)
           pindex ==
               IF fTmpChain THEN walk.tmpChain[walk.n + 1]
               ELSE ChainActiveNext(chain, walk.pindex)
       IN  IF walk.nStakeModifierTime
                >= pindexFrom.nTime + GetStakeModifierSelectionInterval
           THEN walk' = [walk EXCEPT !.pc = "done", !.result = "true",
                                     !.nStakeModifier =
                                         old_pindex.nStakeModifier]
           ELSE IF fPastEnd
           THEN \E outcome \in {"false", "abort"} :
                   walk' = [walk EXCEPT !.pc = "done", !.result = outcome,
                                        !.n = walk.n + 1,
                                        !.nReads = walk.nReads + 1,
                                        !.fReadPastEnd = TRUE]
           ELSE IF pindex = NullIndex
           THEN walk' = [walk EXCEPT !.pc = "done", !.result = "false",
                                     !.pindex = NullIndex]
           ELSE walk' =
                   [walk EXCEPT
                       !.pindex = pindex,
                       !.n = IF fTmpChain THEN walk.n + 1 ELSE walk.n,
                       !.nReads = IF fTmpChain THEN walk.nReads + 1
                                  ELSE walk.nReads,
                       !.visited = walk.visited \cup {pindex},
                       !.nStakeModifierHeight =
                           IF EntryAt(chain, sideBranch, pindex).fGenerated
                           THEN EntryAt(chain, sideBranch, pindex).nHeight
                           ELSE walk.nStakeModifierHeight,
                       !.nStakeModifierTime =
                           IF EntryAt(chain, sideBranch, pindex).fGenerated
                           THEN EntryAt(chain, sideBranch, pindex).nTime
                           ELSE walk.nStakeModifierTime]
    /\ UNCHANGED <<chain, sideBranch>>

\* the block after pindexPrev is at or after the second upgrade
IsProtocolV05(c, params) ==
    c[Len(c)].nHeight + 1 >= params.nMandatoryUpgradeBlock[2]

\* GetKernelStakeModifier
GetKernelStakeModifier(c, pFrom, nTimeTxOf, params) ==
    IF IsProtocolV05(c, params)
    THEN GetKernelStakeModifierV05(c, nTimeTxOf, params)
    ELSE GetKernelStakeModifierV03(c, pFrom)

\* stakeHash: a fixed function of the modifier and of the four fields
\* hashed after it, which stands for their double SHA-256
stakeHash(nTimeTxOf, nStakeModifier, prevout, nTimeBlockFrom) ==
    (ModifierMix(nStakeModifier) * 733 + (nTimeBlockFrom % 4093) * 89
        + prevout.n * 211 + prevout.hash * 577 + (nTimeTxOf % 4093) * 167
        + 977) % ArithModulus

\* stakeTargetHit with the product of weight and target not reduced
stakeTargetHitExact(hash, nValueIn, bnTargetPerCoinDay, fNewWeight) ==
    LET bnCoinDayWeight == IF fNewWeight THEN nValueIn ELSE nValueIn \div 100
    IN  hash <= bnCoinDayWeight * bnTargetPerCoinDay

\* stakeTargetHit
stakeTargetHit(hash, nValueIn, bnTargetPerCoinDay, fNewWeight) ==
    LET bnCoinDayWeight == IF fNewWeight THEN nValueIn ELSE nValueIn \div 100
    IN  hash <= (bnCoinDayWeight * bnTargetPerCoinDay) % ArithModulus

\* line 461 with >= for > in the test of the age
MinAgeViolationAtAge(nTimeBlockFrom, nAge, nTimeTxOf, nHeightCurrent, nHeightBlockFrom, nDepth) ==
    \/ nTimeBlockFrom + nAge >= nTimeTxOf
    \/ nHeightCurrent - nHeightBlockFrom < nDepth

\* line 461
MinAgeViolation(nTimeBlockFrom, nAge, nTimeTxOf, nHeightCurrent, nHeightBlockFrom, nDepth) ==
    \/ nTimeBlockFrom + nAge > nTimeTxOf
    \/ nHeightCurrent - nHeightBlockFrom < nDepth

\* the era (0 or 1) each choice of CheckStakeKernelHash is taken from:
\* lines 455, 456, 411, 511 and 533, 518; at is how far the call gets; a
\* choice the call does not make is -1
KernelEras(c, params, at, fCheck) ==
    LET nHeightCurrent == c[Len(c)].nHeight + 1
        after(i) == IF nHeightCurrent >= params.nMandatoryUpgradeBlock[i + 1]
                    THEN 1 ELSE 0
    IN  [nStakeMinAge |-> after(1),
         nStakeMinDepth |-> after(0),
         modifier |-> IF at \in {"modifier", "hash"} THEN after(1) ELSE -1,
         weight |-> IF at = "hash" THEN after(1) ELSE -1,
         iteration |-> IF at = "hash" /\ ~fCheck THEN after(1) ELSE -1]

\* CheckStakeKernelHash, lines 449-488, for the time nTimeTxOf: where it
\* returns, or the target and the modifier it goes on with
KernelPrologue(c, params, args, nTimeTxOf) ==
    LET nHeightCurrent == c[Len(c)].nHeight + 1
        pindexFrom == c[args.pFrom]
        eras == KernelEras(c, params, "none", args.fCheck)
        nAge == params.nStakeMinAge[eras.nStakeMinAge + 1]
        nDepth == params.nStakeMinDepth[eras.nStakeMinDepth + 1]
        target == SetCompact(args.nBits)
        mod == GetKernelStakeModifier(c, args.pFrom, nTimeTxOf, params)
    IN  IF nTimeTxOf < pindexFrom.nTime
        THEN [at |-> "nTime violation"]
        ELSE IF MinAgeViolation(pindexFrom.nTime, nAge, nTimeTxOf,
                                nHeightCurrent, pindexFrom.nHeight, nDepth)
        THEN [at |-> "min age violation"]
        ELSE IF \/ target.fNegative \/ target.bn = 0 \/ target.fOverflow
                \/ target.bn > params.powLimit
        THEN [at |-> "range"]
        ELSE IF ~mod.fOk
        THEN [at |-> "modifier"]
        ELSE [at |-> "hash", bnTargetPerCoinDay |-> target.bn,
              nStakeModifier |-> mod.nStakeModifier]

\* lines 494-512: the hash and the answer of a check
KernelCheck(c, params, args, nTimeTxOf, pro) ==
    LET hash == stakeHash(nTimeTxOf, pro.nStakeModifier, args.prevout,
                          c[args.pFrom].nTime)
    IN  [hashProofOfStake |-> hash,
         fHit |-> stakeTargetHit(hash, args.nValueIn, pro.bnTargetPerCoinDay,
                                 IsProtocolV05(c, params)),
         fBypass |->
            /\ c[Len(c)].nHeight + 1 < params.nMandatoryUpgradeBlock[1]
            /\ params.hashGenesisBlock =
                "f4bbfc518aa3622dbeb8d2818a606b82c2b8b1ac2f28553ebdb6fc04d7abaccf"]

\* what the history of a call starts with
NoKernelHist ==
    [at |-> "none", fModifier |-> FALSE, nHashes |-> 0, fTipMoved |-> FALSE,
     fTipReplaced |-> FALSE, nIterAfterTip |-> 0, tests |-> {},
     eras |-> [nStakeMinAge |-> -1, nStakeMinDepth |-> -1, modifier |-> -1,
               weight |-> -1, iteration |-> -1]]

\* no kernel call
KernelIdle ==
    /\ kernelParams = RegtestKernelParams(<<0, 0>>)
    /\ activeTip = [nHeight |-> 0, hash |-> 0]
    /\ kernelArgs = [pFrom |-> 1, nValueIn |-> 0, prevout |-> [n |-> 0, hash |-> 0],
                     nBits |-> 0, nTimeTx |-> 0, nHashDrift |-> 0,
                     fCheck |-> TRUE, hashProofOfStake |-> 0]
    /\ kernelTimeTx = 0
    /\ hashProofOfStake = 0
    /\ kernelPc = "none"
    /\ kernelLoop = [i |-> 0, nStakeModifier |-> {}, bnTargetPerCoinDay |-> 0]
    /\ kernelResult = "none"
    /\ kernelHist = NoKernelHist
    /\ kernelVerify = [done |-> FALSE]

\* no call of SelectParams yet
ParamsIdle ==
    /\ gArgs = [segwitheight |-> <<>>, vbparams |-> <<>>]
    /\ globalChainParams = <<>>
    /\ selectNetwork = ""
    /\ selectResult = "none"
    /\ modResolved = [done |-> FALSE]
    /\ WalkIdle

\* no block index, no kernel call and no chain parameters
ChainIdle == ChainEmpty /\ KernelIdle /\ ParamsIdle

\* the compact targets of a header: the limit, a lower target, a higher
\* one, zero, a negative one and one too wide
CompactTargets(params) ==
    IF params.fRegtest
    THEN { Compact(ArithDigits, 31), Compact(ArithDigits - 2, 9),
           Compact(ArithDigits - 1, 0), Compact(ArithDigits - 1, 32 + 9),
           Compact(ArithDigits + 3, 1) }
    ELSE { Compact(ArithDigits - 1, 15), Compact(ArithDigits - 2, 9),
           Compact(ArithDigits - 1, 16), Compact(ArithDigits - 1, 0),
           Compact(ArithDigits - 1, 32 + 9), Compact(ArithDigits + 3, 1) }

\* the times a call is made for, as seconds after the genesis time
KernelTimes(params) ==
    IF params.fRegtest THEN {60, 123, 124, 128}
                       ELSE {48000, 91263, 91264, 91280, 91281}

\* a call of CheckStakeKernelHash with pindexPrev the active tip: any
\* network and upgrade heights, a coin of any entry, a search with a drift
\* the mask accepts or a check, the out-parameter as the caller made it
KernelCalled ==
    /\ \E up \in UpgradeHeights :
          kernelParams \in {MainKernelParams(up), RegtestKernelParams(up)}
    /\ chain = IF kernelParams.fRegtest THEN RegtestKernelChain
                                        ELSE MainKernelChain
    /\ modOutcomes = {}
    /\ activeTip = [nHeight |-> chain[Len(chain)].nHeight,
                    hash |-> chain[Len(chain)].hash]
    /\ \E pFrom \in 2..(Len(chain) - 1), nValueIn \in {2, 5, 20, 500, 2000},
          nBits \in CompactTargets(kernelParams),
          t \in KernelTimes(kernelParams),
          nHashDrift \in {0, 1, 2} , fCheck \in BOOLEAN :
          kernelArgs =
              [pFrom |-> pFrom, nValueIn |-> nValueIn,
               prevout |-> [n |-> 1, hash |-> pFrom + 2],
               nBits |-> nBits, nTimeTx |-> GenesisTime + t,
               nHashDrift |-> IF fCheck THEN 0
                              ELSE nHashDrift *
                                     (kernelParams.nStakeTimestampMask + 1),
               fCheck |-> fCheck, hashProofOfStake |-> 0]
    /\ kernelTimeTx = kernelArgs.nTimeTx
    /\ hashProofOfStake = kernelArgs.hashProofOfStake
    /\ kernelPc = "called"
    /\ kernelLoop = [i |-> 0, nStakeModifier |-> {}, bnTargetPerCoinDay |-> 0]
    /\ kernelResult = "none"
    /\ kernelHist = NoKernelHist
    /\ kernelVerify = [done |-> FALSE]

\* a main chain on which a later block has an earlier time
ReorderedKernelChain ==
    << IndexEntry(0, 0, 1, {}, TRUE),
       IndexEntry(1, 80, 2, StakeModSentinel, TRUE),
       IndexEntry(650, 50200, 6, {0, 3}, TRUE),
       IndexEntry(652, 50100, 7, {1, 2, 5}, TRUE),
       IndexEntry(660, 60000, 8, {1, 2, 5}, FALSE),
       IndexEntry(1259, 91200, 10, {1, 2, 5}, FALSE) >>

\* the times a modifier is resolved for, as seconds after the genesis
\* time: around the times at which an entry of the chains starts or stops
\* to qualify, and at which the tip becomes too old
ModifierTimes(params) ==
    IF params.fRegtest THEN {0, 60, 124, 128, 212, 213, 276, 277, 2400}
    ELSE {41112, 41113, 48000, 91193, 91213, 91263, 91264, 91280, 91313,
          132312, 132313}

\* a check by CheckStakeKernelHash after the second upgrade, with
\* pindexPrev any entry of a chain (the chain up to it) and the coin in
\* any entry of it
ModifierCalled ==
    /\ kernelParams \in {MainKernelParams(<<0, 0>>), RegtestKernelParams(<<0, 0>>)}
    /\ \E full \in (IF kernelParams.fRegtest THEN {RegtestKernelChain}
                     ELSE {MainKernelChain, ReorderedKernelChain}) :
          \E n \in 1..Len(full) : chain = SubSeq(full, 1, n)
    /\ modOutcomes = {}
    /\ activeTip = [nHeight |-> chain[Len(chain)].nHeight,
                    hash |-> chain[Len(chain)].hash]
    /\ \E pFrom \in 1..Len(chain), t \in ModifierTimes(kernelParams) :
          kernelArgs =
              [pFrom |-> pFrom, nValueIn |-> 20,
               prevout |-> [n |-> 1, hash |-> pFrom + 2],
               nBits |-> Compact(ArithDigits - 2, 9),
               nTimeTx |-> GenesisTime + t, nHashDrift |-> 0,
               fCheck |-> TRUE, hashProofOfStake |-> 0]
    /\ kernelTimeTx = kernelArgs.nTimeTx
    /\ hashProofOfStake = kernelArgs.hashProofOfStake
    /\ kernelPc = "called"
    /\ kernelLoop = [i |-> 0, nStakeModifier |-> {}, bnTargetPerCoinDay |-> 0]
    /\ kernelResult = "none"
    /\ kernelHist = NoKernelHist
    /\ kernelVerify = [done |-> FALSE]
    /\ modResolved = [done |-> FALSE]
    /\ WalkIdle

\* GetKernelStakeModifierV05 is called for the last entry of the chain
ResolveModifier ==
    /\ ~modResolved.done
    /\ modResolved' =
          [done |-> TRUE]
              @@ GetKernelStakeModifierV05(chain, kernelArgs.nTimeTx, kernelParams)

KernelTested(hash, bn) ==
    [hash |-> hash, nValueIn |-> kernelArgs.nValueIn,
     bnTargetPerCoinDay |-> bn,
     fNewWeight |-> IsProtocolV05(chain, kernelParams),
     fHit |-> stakeTargetHit(hash, kernelArgs.nValueIn, bn,
                             IsProtocolV05(chain, kernelParams))]

\* CheckStakeKernelHash from its entry up to its return or up to the loop
KernelEnter ==
    /\ kernelPc = "called"
    /\ LET pro == KernelPrologue(chain, kernelParams, kernelArgs, kernelTimeTx)
           eras == KernelEras(chain, kernelParams, pro.at, kernelArgs.fCheck)
       IN  IF pro.at # "hash"
           THEN /\ kernelPc' = "done"
                /\ kernelResult' = "false"
                /\ kernelHist' =
                      [kernelHist EXCEPT !.at = pro.at,
                                         !.fModifier = pro.at = "modifier",
                                         !.eras = eras]
                /\ UNCHANGED <<hashProofOfStake, kernelLoop>>
           ELSE IF kernelArgs.fCheck
           THEN LET chk == KernelCheck(chain, kernelParams, kernelArgs,
                                       kernelTimeTx, pro)
                IN  /\ hashProofOfStake' = chk.hashProofOfStake
                    /\ kernelPc' = "done"
                    /\ kernelResult' =
                          IF chk.fHit \/ chk.fBypass THEN "true" ELSE "false"
                    /\ kernelLoop' =
                          [kernelLoop EXCEPT
                              !.nStakeModifier = pro.nStakeModifier,
                              !.bnTargetPerCoinDay = pro.bnTargetPerCoinDay]
                    /\ kernelHist' =
                          [kernelHist EXCEPT
                              !.at = pro.at, !.eras = eras,
                              !.fModifier = TRUE, !.nHashes = 1,
                              !.tests = { KernelTested(chk.hashProofOfStake,
                                              pro.bnTargetPerCoinDay) }]
           ELSE /\ kernelPc' = "loop"
                /\ kernelLoop' = [i |-> kernelArgs.nHashDrift,
                                  nStakeModifier |-> pro.nStakeModifier,
                                  bnTargetPerCoinDay |-> pro.bnTargetPerCoinDay]
                /\ kernelHist' = [kernelHist EXCEPT !.at = pro.at,
                                                    !.eras = eras,
                                                    !.fModifier = TRUE]
                /\ UNCHANGED <<hashProofOfStake, kernelResult>>
    /\ UNCHANGED <<kernelParams, activeTip, kernelArgs, kernelTimeTx,
                   kernelVerify, chain, modOutcomes>>

\* one turn of the loop of lines 519-552, or its end
KernelIterate ==
    /\ kernelPc = "loop"
    /\ LET nHeightStart == chain[Len(chain)].nHeight
           fV05 == IsProtocolV05(chain, kernelParams)
           iteration == IF fV05 THEN kernelParams.nStakeTimestampMask + 1
                        ELSE 1
           nTryTime == kernelTimeTx + kernelLoop.i
           hash == stakeHash(nTryTime, kernelLoop.nStakeModifier,
                             kernelArgs.prevout, chain[kernelArgs.pFrom].nTime)
           moved == kernelHist.fTipMoved \/ kernelHist.fTipReplaced
       IN  IF kernelLoop.i < 0 \/ activeTip.nHeight # nHeightStart
           THEN /\ kernelPc' = "done"
                /\ kernelResult' = "false"
                /\ UNCHANGED <<hashProofOfStake, kernelTimeTx, kernelLoop,
                               kernelHist>>
           ELSE /\ hashProofOfStake' = hash
                /\ kernelHist' =
                      [kernelHist EXCEPT
                          !.nHashes = Min(@ + 1, 2),
                          !.nIterAfterTip = IF moved THEN Min(@ + 1, 2) ELSE @,
                          !.tests = @ \cup { KernelTested(hash,
                                        kernelLoop.bnTargetPerCoinDay) }]
                /\ IF stakeTargetHit(hash, kernelArgs.nValueIn,
                                     kernelLoop.bnTargetPerCoinDay, fV05)
                   THEN /\ kernelTimeTx' = nTryTime
                        /\ kernelPc' = "done"
                        /\ kernelResult' = "true"
                        /\ UNCHANGED kernelLoop
                   ELSE /\ kernelLoop' =
                              [kernelLoop EXCEPT !.i = @ - iteration]
                        /\ UNCHANGED <<kernelTimeTx, kernelPc, kernelResult>>
    /\ UNCHANGED <<kernelParams, activeTip, kernelArgs, kernelVerify, chain,
                   modOutcomes>>

\* during the loop, a block is connected on top of the active tip
TipAdvance ==
    /\ kernelPc = "loop"
    /\ activeTip.nHeight = chain[Len(chain)].nHeight
    /\ ~kernelHist.fTipReplaced
    /\ activeTip' = [nHeight |-> activeTip.nHeight + 1, hash |-> 20]
    /\ kernelHist' = [kernelHist EXCEPT !.fTipMoved = TRUE]
    /\ UNCHANGED <<kernelParams, kernelArgs, kernelTimeTx, hashProofOfStake,
                   kernelPc, kernelLoop, kernelResult, kernelVerify, chain,
                   modOutcomes>>

\* during the loop, the active tip is replaced by another block of its
\* height
TipReplace ==
    /\ kernelPc = "loop"
    /\ activeTip.hash = chain[Len(chain)].hash
    /\ activeTip' = [nHeight |-> activeTip.nHeight, hash |-> 21]
    /\ kernelHist' = [kernelHist EXCEPT !.fTipReplaced = TRUE]
    /\ UNCHANGED <<kernelParams, kernelArgs, kernelTimeTx, hashProofOfStake,
                   kernelPc, kernelLoop, kernelResult, kernelVerify, chain,
                   modOutcomes>>

\* the coin a search returned true for is checked at the time the search
\* returned, with the same pindexPrev and the chain as it was
KernelVerify ==
    /\ kernelPc = "done"
    /\ ~kernelArgs.fCheck
    /\ kernelResult = "true"
    /\ activeTip.hash = chain[Len(chain)].hash
    /\ ~kernelVerify.done
    /\ LET pro == KernelPrologue(chain, kernelParams, kernelArgs, kernelTimeTx)
       IN  kernelVerify' =
              IF pro.at # "hash"
              THEN [done |-> TRUE, fResult |-> FALSE, at |-> pro.at,
                    hashProofOfStake |-> 0, nStakeModifier |-> {}]
              ELSE LET chk == KernelCheck(chain, kernelParams, kernelArgs,
                                          kernelTimeTx, pro)
                   IN  [done |-> TRUE, fResult |-> chk.fHit \/ chk.fBypass,
                        at |-> pro.at,
                        hashProofOfStake |-> chk.hashProofOfStake,
                        nStakeModifier |-> pro.nStakeModifier]
    /\ UNCHANGED <<kernelParams, activeTip, kernelArgs, kernelTimeTx,
                   hashProofOfStake, kernelPc, kernelLoop, kernelResult,
                   kernelHist, chain, modOutcomes>>

----------------------------------------------------------------------------
(* The chain parameters of the process.                                    *)

\* std::numeric_limits<int>::max()
INT_MAX == 2147483647

\* the longest -vbparams list and the most fields of one entry
MaxVbParams == 2
MaxFields == 4

\* a string is the sequence of its pieces: ":" or a word without ":"
Words == {"testdummy", "7"}

\* fields joined with ":"
RECURSIVE JoinFields(_)
JoinFields(fields) ==
    IF Len(fields) = 1 THEN fields
    ELSE <<Head(fields), ":">> \o JoinFields(Tail(fields))

\* the values a -vbparams entry is given
VbEntries ==
    { JoinFields(f) : f \in UNION { [1..k -> Words] : k \in 1..MaxFields } }

RECURSIVE SeqsUpTo(_, _)
SeqsUpTo(S, n) ==
    IF n = 0 THEN { <<>> }
    ELSE SeqsUpTo(S, n - 1)
            \cup { Append(q, e) : q \in { r \in SeqsUpTo(S, n - 1) : Len(r) = n - 1 },
                                  e \in S }

\* the arguments: -segwitheight unset or a number, the -vbparams entries
\* in the order given (none: the argument is not set)
ArgsGiven ==
    [segwitheight : { <<>> } \cup { <<h>> : h \in {-2, -1, 0, 7, INT_MAX - 1, INT_MAX} },
     vbparams : SeqsUpTo(VbEntries, MaxVbParams)]

\* boost::split(v, str, boost::is_any_of(":")): the pieces between the
\* separators, cur being the field read so far
RECURSIVE SplitFrom(_, _)
SplitFrom(str, cur) ==
    IF str = <<>> THEN << cur >>
    ELSE IF Head(str) = ":" THEN << cur >> \o SplitFrom(Tail(str), <<>>)
    ELSE SplitFrom(Tail(str), cur \o << Head(str) >>)

split(str) == SplitFrom(str, <<>>)

\* ParseInt64: the field is a decimal number; its value
ParseInt64(field) ==
    IF field = << "7" >> THEN [fOk |-> TRUE, n |-> 7]
    ELSE [fOk |-> FALSE, n |-> 0]

\* VersionBitsDeploymentInfo[j].name, j below MAX_VERSION_BITS_DEPLOYMENTS
VersionBitsDeploymentInfo == << << "testdummy" >>, << "taproot" >> >>

\* the parameters a constructor builds, as far as the arguments change
\* them: vDeployments[d] is <<>> as constructed, then <<nStartTime,
\* nTimeout>>
ChainParamsOf(strNetworkID, nSegwitHeight) ==
    [strNetworkID |-> strNetworkID, SegwitHeight |-> nSegwitHeight,
     vDeployments |-> << <<>>, <<>> >>]

\* the loop over the -vbparams entries from the i-th on: the parameters
\* after it, or the exception
RECURSIVE VbParamsFrom(_, _, _)
VbParamsFrom(vb, i, params) ==
    IF i > Len(vb) THEN [fThrew |-> FALSE, params |-> params]
    ELSE LET vDeploymentParams == split(vb[i]) IN
    IF Len(vDeploymentParams) # 3
    THEN [fThrew |-> TRUE, what |-> "Version bits parameters malformed"]
    ELSE LET nStartTime == ParseInt64(vDeploymentParams[2])
             nTimeout == ParseInt64(vDeploymentParams[3])
             found == { j \in 1..Len(VersionBitsDeploymentInfo) :
                          vDeploymentParams[1] = VersionBitsDeploymentInfo[j] }
         IN
    IF ~nStartTime.fOk THEN [fThrew |-> TRUE, what |-> "Invalid nStartTime"]
    ELSE IF ~nTimeout.fOk THEN [fThrew |-> TRUE, what |-> "Invalid nTimeout"]
    ELSE IF found = {} THEN [fThrew |-> TRUE, what |-> "Invalid deployment"]
    ELSE VbParamsFrom(vb, i + 1,
            [params EXCEPT !.vDeployments[CHOOSE j \in found : TRUE] =
                              << nStartTime.n, nTimeout.n >>])

\* line 535 without its upper limit
SegwitHeightBelowRange(height) == height < -1

\* line 535: the height is out of the valid range
SegwitHeightOutOfRange(height) == height < -1 \/ height >= INT_MAX

\* CRegTestParams::UpdateActivationParametersFromArgs
UpdateActivationParametersFromArgs(args, params) ==
    LET fSet == args.segwitheight # <<>>
        height == IF fSet THEN args.segwitheight[1] ELSE params.SegwitHeight
        fRange == fSet /\ SegwitHeightOutOfRange(height)
        segwit == IF ~fSet THEN params
                  ELSE [params EXCEPT !.SegwitHeight =
                           IF height = -1 THEN INT_MAX ELSE height]
    IN  IF fRange
        THEN [fThrew |-> TRUE, what |-> "Activation height out of valid range"]
        ELSE IF args.vbparams = <<>> THEN [fThrew |-> FALSE, params |-> segwit]
        ELSE VbParamsFrom(args.vbparams, 1, segwit)

\* CreateChainParams
CreateChainParams(args, chainName) ==
    IF chainName = "main"
    THEN [fThrew |-> FALSE, params |-> ChainParamsOf("main", 0)]
    ELSE IF chainName = "test"
    THEN [fThrew |-> FALSE, params |-> ChainParamsOf("test", 0)]
    ELSE IF chainName = "signet"
    THEN [fThrew |-> FALSE, params |-> ChainParamsOf("signet", 1)]
    ELSE IF chainName = "regtest"
    THEN UpdateActivationParametersFromArgs(args, ChainParamsOf("regtest", 0))
    ELSE [fThrew |-> TRUE, what |-> "Unknown chain"]

\* the names SelectParams is given
NetworkNames == {"main", "test", "signet", "regtest", "mainnet", ""}

\* SelectParams: SelectBaseParams returns or throws, then the parameters
\* are created and, if that did not throw, installed
SelectParams ==
    \E network \in NetworkNames, fBaseThrew \in BOOLEAN :
        LET created == CreateChainParams(gArgs, network)
        IN  /\ selectNetwork' = network
            /\ selectResult' =
                  IF fBaseThrew \/ created.fThrew THEN "threw" ELSE "returned"
            /\ globalChainParams' =
                  IF fBaseThrew \/ created.fThrew THEN globalChainParams
                  ELSE created.params
            /\ UNCHANGED gArgs

----------------------------------------------------------------------------
(* Specifications.                                                         *)

Init == MinterInit /\ TsIdle /\ AsmIdle /\ ChainIdle

\* a step of the minter machine leaves the other machines alone
MinterStep(A) ==
    A /\ UNCHANGED <<tsVars, mempoolVars, stakeVars, asmVars, chainVars,
                     kernelVars, paramsVars, resolveVars>>

Next ==
    \/ MinterStep(TimioLock) \/ MinterStep(TimioUnlock)
    \/ MinterStep(CheckMinting)
    \/ MinterStep(WaitUnlock) \/ MinterStep(SleepLocked)
    \/ MinterStep(WaitPeers) \/ MinterStep(SleepPeers)
    \/ MinterStep(WaitSync) \/ MinterStep(SleepSync)
    \/ MinterStep(CreateLockWallet)
    \/ MinterStep(CnbLockMain) \/ MinterStep(CnbLockMempool)
    \/ MinterStep(CnbReturnNull) \/ MinterStep(CnbReturnTemplate)
    \/ MinterStep(CnbThrow)
    \/ MinterStep(CreateUnlock) \/ MinterStep(CheckTemplate)
    \/ MinterStep(SleepCancel)
    \/ MinterStep(SignLock) \/ MinterStep(SignBlockStep)
    \/ MinterStep(PbfLock) \/ MinterStep(PbfCheck) \/ MinterStep(PbfProcess)
    \/ MinterStep(SleepRest) \/ MinterStep(SleepTimio)
    \/ MinterStep(Interrupt) \/ MinterStep(Tick)
    \/ MinterStep(WalletToggle) \/ MinterStep(PeersToggle)
    \/ MinterStep(SyncToggle) \/ MinterStep(NewTip)

Spec == Init /\ [][Next]_vars

\* The minter thread is scheduled whenever it can take a step.
FairSpec == Init /\ [][Next]_vars /\ WF_minterVars(Minter)

MinterIdle ==
    /\ MinterInit
    /\ fMinting /\ fRegtest /\ ~fWalletLocked /\ fPeersOnline /\ fSynced
    /\ ~fTimeAdvanced

InitTs == MinterIdle /\ TsInit /\ AsmIdle /\ ChainIdle

NextTs ==
    TsCheck /\ UNCHANGED <<minterVars, mempoolVars, stakeVars, asmVars, chainVars,
                     kernelVars, paramsVars, resolveVars>>

SpecTs == InitTs /\ [][NextTs]_vars

\* a step of CreateNewBlock: the mempool, the chain and the wallet are
\* locked or read-only, the other machines are left alone
AsmStep(A) ==
    A /\ UNCHANGED <<minterVars, tsVars, mpParents, mpEntry, mapTx, chainEnv,
                     chainVars, kernelVars, paramsVars, resolveVars>>

NextAsm ==
    \/ AsmStep(AsmStart)
    \/ AsmStep(AsmSkip) \/ AsmStep(AsmEvaluate) \/ AsmStep(AsmLoopEnd)
    \/ AsmStep(AsmSort)
    \/ AsmStep(AsmStake)
    \/ AsmStep(AsmFinish)

\* every mempool, every configured maximum weight
InitAsm ==
    /\ MinterIdle /\ TsRest
    /\ MempoolAny /\ StakeEnvSmall /\ AsmConstructed
    /\ ChainIdle

SpecAsm == InitAsm /\ [][NextAsm]_vars

\* CreateNewBlock called twice without a wallet
InitTwice ==
    /\ InitAsm
    /\ ~fWallet

NextTwice ==
    \/ AsmStep(AsmStart)
    \/ AsmStep(AsmSkip) \/ AsmStep(AsmEvaluate) \/ AsmStep(AsmLoopEnd)
    \/ AsmStep(AsmSort)
    \/ AsmStep(AsmFinish)
    \/ AsmStep(AsmAgain)

SpecTwice == InitTwice /\ [][NextTwice]_vars

\* every network, clock, median time past and wallet
InitStake ==
    /\ MinterIdle /\ TsRest
    /\ MempoolPair /\ StakeEnvAny /\ AsmConstructed
    /\ nBlockMaxWeight = MAX_BLOCK_WEIGHT - 4000
    /\ ChainIdle

SpecStake == InitStake /\ [][NextAsm]_vars

\* CreateNewBlock called with a wallet again and again, the clock moving
\* between the calls and during them
InitSearch ==
    /\ MinterIdle /\ TsRest
    /\ MempoolPair /\ AsmConstructed
    /\ nBlockMaxWeight = MAX_BLOCK_WEIGHT - 4000
    /\ nStakeTimestampMask = RegtestParams.nStakeTimestampMask
    /\ StakeEnvOf(RegtestParams, 0..MaxTime, { <<>>, <<StakeCoin(6)>> })
    /\ fWallet
    /\ fWitnessEnabled
    /\ nTreasuryPayment = 0
    /\ ChainIdle

NextSearch ==
    \/ AsmStep(AsmStart)
    \/ AsmStep(AsmSkip) \/ AsmStep(AsmEvaluate) \/ AsmStep(AsmLoopEnd)
    \/ AsmStep(AsmSort)
    \/ AsmStep(AsmStake)
    \/ AsmStep(AsmFinish)
    \/ AsmStep(AsmNewCall)

SpecSearch == InitSearch /\ [][NextSearch]_vars

\* every payee table and treasury payment, with and without a wallet
InitTreasury ==
    /\ MinterIdle /\ TsRest
    /\ MempoolPair /\ AsmConstructed
    /\ nBlockMaxWeight = MAX_BLOCK_WEIGHT - 4000
    /\ nStakeTimestampMask = RegtestParams.nStakeTimestampMask
    /\ ChainEnvOf(RegtestParams, 0..MaxTime, { <<StakeCoin(6)>> })
    /\ fSelectStakeCoins
    /\ fWitnessEnabled
    /\ nTreasuryPayment \in TreasuryPayments
    /\ treasuryPayees \in TreasuryPayeeTables
    /\ ChainIdle

SpecTreasury == InitTreasury /\ [][NextAsm]_vars

\* the block index of every network grows from nothing, block by block
InitChain ==
    /\ MinterInit
    /\ fMinting /\ ~fWalletLocked /\ fPeersOnline /\ fSynced /\ ~fTimeAdvanced
    /\ TsIdle /\ AsmIdle
    /\ ChainIdle

NextChain ==
    ChainAppend
        /\ UNCHANGED <<minterVars, tsVars, mempoolVars, stakeVars, asmVars,
                       kernelVars, paramsVars, resolveVars>>

SpecChain == InitChain /\ [][NextChain]_vars

\* the same with pauses longer than the selection interval, so that the
\* candidates of a modifier are some of the ancestors only
NextSelect ==
    (ChainAppend \/ ChainAppendLate)
        /\ UNCHANGED <<minterVars, tsVars, mempoolVars, stakeVars, asmVars,
                       kernelVars, paramsVars, resolveVars>>

SpecSelect == InitChain /\ [][NextSelect]_vars

\* a call of CheckStakeKernelHash, the active tip changing under a search
InitKernel ==
    /\ MinterInit
    /\ fMinting /\ ~fWalletLocked /\ fPeersOnline /\ fSynced /\ ~fTimeAdvanced
    /\ TsIdle /\ AsmIdle
    /\ KernelCalled
    /\ fRegtest = kernelParams.fRegtest
    /\ ParamsIdle

KernelStep(A) ==
    A /\ UNCHANGED <<minterVars, tsVars, mempoolVars, stakeVars, asmVars,
                     paramsVars, resolveVars>>

NextKernel ==
    \/ KernelStep(KernelEnter)
    \/ KernelStep(KernelIterate)
    \/ KernelStep(TipAdvance)
    \/ KernelStep(TipReplace)
    \/ KernelStep(KernelVerify)

SpecKernel == InitKernel /\ [][NextKernel]_vars

\* the V0.5 modifier resolved for any entry of a chain and any time, and
\* a check by CheckStakeKernelHash with the same arguments
InitModifier ==
    /\ MinterInit
    /\ fMinting /\ ~fWalletLocked /\ fPeersOnline /\ fSynced /\ ~fTimeAdvanced
    /\ TsIdle /\ AsmIdle
    /\ ModifierCalled
    /\ fRegtest = kernelParams.fRegtest
    /\ gArgs = [segwitheight |-> <<>>, vbparams |-> <<>>]
    /\ globalChainParams = <<>>
    /\ selectNetwork = ""
    /\ selectResult = "none"

NextModifier ==
    \/ KernelStep(KernelEnter)
    \/ ResolveModifier
          /\ UNCHANGED <<minterVars, tsVars, mempoolVars, stakeVars, asmVars,
                         chainVars, kernelVars, paramsVars, sideBranch,
                         walk>>

SpecModifier == InitModifier /\ [][NextModifier]_vars

\* GetKernelStakeModifierV03 called for any entry of a block index with a
\* side branch
InitWalk ==
    /\ MinterIdle /\ TsIdle /\ AsmIdle
    /\ KernelIdle
    /\ modOutcomes = {}
    /\ gArgs = [segwitheight |-> <<>>, vbparams |-> <<>>]
    /\ globalChainParams = <<>>
    /\ selectNetwork = ""
    /\ selectResult = "none"
    /\ modResolved = [done |-> FALSE]
    /\ WalkCalled

\* a step of the walk: the other machines are left alone
WalkStep(A) ==
    /\ A
    /\ UNCHANGED <<minterVars, tsVars, mempoolVars, stakeVars, asmVars,
                   modOutcomes, kernelVars, paramsVars, modResolved>>

NextWalk ==
    \/ WalkStep(WalkEnter)
    \/ WalkStep(WalkTurn)

SpecWalk == InitWalk /\ [][NextWalk]_vars

\* the chain parameters selected, and selected again, under every
\* argument list
InitParams ==
    /\ MinterIdle /\ TsIdle /\ AsmIdle
    /\ ChainEmpty /\ KernelIdle
    /\ gArgs \in ArgsGiven
    /\ globalChainParams = <<>>
    /\ selectNetwork = ""
    /\ selectResult = "none"
    /\ modResolved = [done |-> FALSE]
    /\ WalkIdle

NextParams ==
    SelectParams
        /\ UNCHANGED <<minterVars, tsVars, mempoolVars, stakeVars, asmVars,
                       chainVars, kernelVars, resolveVars>>

SpecParams == InitParams /\ [][NextParams]_vars

----------------------------------------------------------------------------
(* Claims about the minter thread.                                         *)

\* Rank of each lock in the order the specification documents
\* (chain, mempool, wallet) and in the order the code uses.
DocRank(l)  == CASE l = CS_MAIN -> 1 [] l = CS_MEMPOOL -> 2 [] l = CS_WALLET -> 3
CodeRank(l) == CASE l = CS_WALLET -> 1 [] l = CS_MAIN -> 2 [] l = CS_MEMPOOL -> 3

C2_CancelReturnsAtOnce ==
    /\ [](fCancelled => (pc = "exit" /\ held = <<>> /\ exitReason = "cancelled"))
    /\ [][pc = "exit" => (pc' = "exit" /\ held' = held /\ lastCall' = lastCall
                          /\ pblocktemplate' = pblocktemplate)]_vars

\* A sleep was cancelled after the thread had called the assembler.
C2_Witness == fCancelled /\ pc = "exit" /\ lastCall = "CreateNewBlock"

\* C3: once the interrupt is raised (it stays raised) the minter thread,
\* scheduled fairly and with every call returning, eventually exits.
C3_CancelLiveness == [](interruptNet => <>(pc = "exit"))

----------------------------------------------------------------------------
(* Claims about the coinstake timestamp check.                             *)

\* C6: the coinstake timestamp check accepts a pair (block time, coinstake
\* time) if and only if the two are equal and block time &
\* stake_timestamp_mask = 0.
C6_TimestampRule ==
    tsResult # "none" =>
        (tsResult = "true" <=>
            (nTimeBlock = nTimeTx /\ BitAnd(nTimeBlock, nStakeTimestampMask) = 0))

----------------------------------------------------------------------------
(* Claims about the block assembler.                                       *)

\* the template of a call with a wallet as C5 describes it
C5_Layout ==
    /\ Len(entries) >= 2
    /\ entries[1].tx = CoinbaseRef
    /\ coinbaseTx.vout[1] = [nValue |-> 0, scriptPubKey |-> ""]
    /\ coinbaseTx.vin[1].scriptSig = <<nHeight, "OP_0">>
    /\ entries[2].tx = CoinstakeRef
    /\ coinstakeTx # EmptyTx
    /\ Len(vtx) = Len(entries)
    /\ \A i \in 1..Len(entries) : vtx[i] = entries[i].tx

\* C5: a call of CreateNewBlock with a wallet returns a template if and
\* only if *pfPoSCancel is false at the return; it returns one only when
\* CreateCoinStake returned true in this call and the block time is above
\* the median time past and has no bit of the stake timestamp mask set;
\* the template then has the coinbase (first output empty, scriptSig
\* <height> OP_0) at entry 0, the coinstake at entry 1 and block.vtx in
\* the order of the entries; in every other case the call returns null
\* with *pfPoSCancel true.  (A call that the validity test ends with an
\* exception returns nothing; it has passed the same tests.)
C5_PoSTemplateIffNotCancelled ==
    (fProofOfStake /\ apc = "done") =>
        LET fStaked == /\ stakeOutcome = "kernel"
                       /\ nTime > nMedianTimePast
                       /\ BitAnd(nTime, nStakeTimestampMask) = 0
        IN  /\ asmResult \in {"null", "template", "runtime_error"}
            /\ (asmResult = "template" => ~pfPoSCancel)
            /\ (asmResult = "null" => pfPoSCancel)
            /\ (asmResult = "template" => (fStaked /\ C5_Layout))
            /\ (~fStaked => (asmResult = "null" /\ pfPoSCancel))

\* A call with a wallet returned a template with the two selected
\* transactions after the coinbase and the coinstake.
C5_Witness ==
    /\ fProofOfStake /\ apc = "done" /\ asmResult = "template"
    /\ Len(entries) = 4 /\ nTime > nAdjustedTime

\* C7: in every template CreateNewBlock returns, each selected
\* transaction comes after every in-mempool ancestor of it that is in the
\* block, whatever the mempool and the witness hashes.
C7_AncestorsFirstAfterSort ==
    asmResult = "template" =>
        \A i, j \in 1..Len(vtx) :
            (vtx[i] \in TxIds /\ vtx[j] \in CalculateMemPoolAncestors(vtx[i]))
                => j < i

\* C8: after every step of package selection the block weight, with the
\* 4000 reserved for the coinbase, is at most nBlockMaxWeight and the
\* sigop cost, with the 400 reserved, is at most MAX_BLOCK_SIGOPS_COST;
\* nBlockMaxWeight is within 4000 .. MAX_BLOCK_WEIGHT - 4000.
C8_WeightAndSigOpsBounded ==
    /\ 4000 <= nBlockMaxWeight
    /\ nBlockMaxWeight <= MAX_BLOCK_WEIGHT - 4000
    /\ nBlockWeight <= nBlockMaxWeight
    /\ nBlockSigOpsCost <= MAX_BLOCK_SIGOPS_COST
    /\ (apc # "idle" => (nBlockWeight >= 4000 /\ nBlockSigOpsCost >= 400))

\* A package was refused for its size or its sigops after transactions
\* had been added.
C8_Witness == apc = "select" /\ nBlockTx >= 2 /\ nConsecutiveFailed > 0

\* C9: no mempool transaction is added twice: during package selection
\* no entry of the modified set is in the block, the assertion of line
\* 446 does not fail, and no transaction has two entries.
C9_ModifiedDisjointFromInBlock ==
    /\ ~fAssertFailed
    /\ \A m \in mapModifiedTx : m.iter \notin inBlock
    /\ \A i, j \in 1..Len(entries) :
          (i # j /\ entries[i].tx \in TxIds) => entries[i].tx # entries[j].tx

\* A package was added and a descendant of it waits in the modified set.
C9_Witness == apc = "select" /\ inBlock # {} /\ mapModifiedTx # {}

\* the comparator of the canonical sort on the selected transactions
C10_Less(a, b) == CanonicalLess(wtxid, TemplateEntry(a), TemplateEntry(b))
C10_Unordered(a, b) == ~C10_Less(a, b) /\ ~C10_Less(b, a)

\* C10: the comparator of the canonical sort is a strict weak order on
\* the selected transactions: irreflexive, asymmetric, transitive, and
\* with a transitive 'neither before the other'.
C10_StrictWeakOrder ==
    apc \in {"stake", "finish", "done"} =>
        /\ \A a \in inBlock : ~C10_Less(a, a)
        /\ \A a, b \in inBlock : C10_Less(a, b) => ~C10_Less(b, a)
        /\ \A a, b, c \in inBlock :
              (C10_Less(a, b) /\ C10_Less(b, c)) => C10_Less(a, c)
        /\ \A a, b, c \in inBlock :
              (C10_Unordered(a, b) /\ C10_Unordered(b, c)) => C10_Unordered(a, c)

----------------------------------------------------------------------------
(* Claims about the treasury outputs.                                      *)

\* FillTreasuryPayee has run: on the coinbase of a call without a wallet,
\* on the coinstake of a call with one
C11_Filled == (apc # "idle" /\ ~fProofOfStake) \/ coinstakeTx # EmptyTx

\* the outputs it appended: those after the subsidy output of the
\* coinbase, after the empty and the credit output of the coinstake
C11_Outputs ==
    IF ~fProofOfStake
    THEN SubSeq(coinbaseTx.vout, 2, Len(coinbaseTx.vout))
    ELSE SubSeq(coinstakeTx.vout, 3, Len(coinstakeTx.vout))

RECURSIVE C11_Sum(_, _)
C11_Sum(seq, field) ==
    IF seq = <<>> THEN 0 ELSE Head(seq)[field] + C11_Sum(Tail(seq), field)

\* one output per payee, in table order, of T x pct / 100 in integer
\* arithmetic, when T > 0; none otherwise
C11_EachOutput ==
    IF nTreasuryPayment > 0
    THEN /\ Len(C11_Outputs) = Len(treasuryPayees)
         /\ \A i \in 1..Len(treasuryPayees) :
               /\ C11_Outputs[i].scriptPubKey = treasuryPayees[i].script
               /\ C11_Outputs[i].nValue =
                     (nTreasuryPayment * treasuryPayees[i].pct) \div 100
    ELSE C11_Outputs = <<>>

\* C11 as stated: the treasury outputs appended to the coinbase (PoW) or
\* coinstake (PoS) are T x pct / 100 each and sum to exactly
\* T x (sum of the percentages) / 100, for every payment T > 0 and every
\* payee table; none is appended when T <= 0.
C11_SumExact ==
    C11_Filled =>
        /\ C11_EachOutput
        /\ C11_Sum(C11_Outputs, "nValue") * 100 =
              (IF nTreasuryPayment > 0
               THEN nTreasuryPayment * C11_Sum(treasuryPayees, "pct") ELSE 0)

\* C11 amended: each treasury output is T x pct / 100 rounded down, one
\* per payee in table order, and none when T <= 0; their sum is at most
\* T x (sum of the percentages) / 100 and falls short of it by less than
\* one unit per payee; it equals it when 100 divides every T x pct, as
\* with the single payee of 100 that every network configures.
C11_SumRoundedDown ==
    C11_Filled =>
        LET sum   == C11_Sum(C11_Outputs, "nValue")
            exact == IF nTreasuryPayment > 0
                     THEN nTreasuryPayment * C11_Sum(treasuryPayees, "pct")
                     ELSE 0
        IN  /\ C11_EachOutput
            /\ sum * 100 <= exact
            /\ sum * 100 > exact - 100 * Len(treasuryPayees)
            /\ ((\A i \in 1..Len(treasuryPayees) :
                    (nTreasuryPayment * treasuryPayees[i].pct) % 100 = 0)
                 => sum * 100 = exact)

\* A coinstake carries three treasury outputs that lost a unit to the
\* rounding.
C11_Witness ==
    /\ fProofOfStake /\ coinstakeTx # EmptyTx /\ asmResult = "template"
    /\ Len(C11_Outputs) = 3
    /\ C11_Sum(C11_Outputs, "nValue") * 100
          < nTreasuryPayment * C11_Sum(treasuryPayees, "pct")

----------------------------------------------------------------------------
(* Claims about the stake kernel.                                          *)

\* C12: when a search has returned true with the time T and the tip is
\* the one it started with, the check of the same coin at T with the same
\* pindexPrev returns true with the proof hash the search returned.
C12_SearchVerifyAgree ==
    kernelVerify.done =>
        /\ kernelVerify.fResult
        /\ kernelVerify.hashProofOfStake = hashProofOfStake

\* C13: every target test made accepts exactly when the hash is at most
\* the product of weight and target as an integer.
C13_ExactProduct ==
    \A t \in kernelHist.tests :
        t.fHit <=> stakeTargetHitExact(t.hash, t.nValueIn,
                                       t.bnTargetPerCoinDay, t.fNewWeight)

\* the values C14 is stated with
C14_Age == kernelArgs.nTimeTx - chain[kernelArgs.pFrom].nTime

C14_Depth == chain[Len(chain)].nHeight + 1 - chain[kernelArgs.pFrom].nHeight

C14_MinAge ==
    IF chain[Len(chain)].nHeight + 1 >= kernelParams.nMandatoryUpgradeBlock[2]
    THEN kernelParams.nStakeMinAge[2] ELSE kernelParams.nStakeMinAge[1]

C14_MinDepth ==
    IF chain[Len(chain)].nHeight + 1 >= kernelParams.nMandatoryUpgradeBlock[1]
    THEN kernelParams.nStakeMinDepth[2] ELSE kernelParams.nStakeMinDepth[1]

\* C14: a call gets past the tests of age and depth exactly when the time
\* is not before the time of the coin's block, the age is at least the
\* minimum age and the depth at least the minimum depth; a call that does
\* not returns false, has asked for no modifier and has computed no hash.
C14_AgeAndDepth ==
    kernelHist.at # "none" =>
        LET fPass == /\ kernelArgs.nTimeTx >= chain[kernelArgs.pFrom].nTime
                     /\ C14_Age >= C14_MinAge
                     /\ C14_Depth >= C14_MinDepth
        IN  /\ fPass <=> kernelHist.at \notin {"nTime violation",
                                               "min age violation"}
            /\ ~fPass =>
                  /\ kernelResult = "false"
                  /\ ~kernelHist.fModifier
                  /\ kernelHist.nHashes = 0
                  /\ hashProofOfStake = kernelArgs.hashProofOfStake

\* C14 happens: a check of a coin whose age is the minimum age, on the
\* main network, went on to the hash and returned true
C14_Witness ==
    /\ ~kernelParams.fRegtest
    /\ kernelArgs.fCheck
    /\ C14_Age = C14_MinAge
    /\ kernelHist.at = "hash"
    /\ kernelHist.nHashes = 1
    /\ kernelResult = "true"

\* C15: a search during which the active tip changed has computed no hash
\* after the change and returns false.
C15_TipChangeAborts ==
    (/\ kernelPc = "done"
     /\ ~kernelArgs.fCheck
     /\ (kernelHist.fTipMoved \/ kernelHist.fTipReplaced))
        => /\ kernelResult = "false"
           /\ kernelHist.nIterAfterTip = 0

\* C16: a search that has returned false has left nTimeTx and
\* hashProofOfStake as they were passed.
C16_NoSideEffects ==
    (kernelPc = "done" /\ ~kernelArgs.fCheck /\ kernelResult = "false")
        => /\ kernelTimeTx = kernelArgs.nTimeTx
           /\ hashProofOfStake = kernelArgs.hashProofOfStake

----------------------------------------------------------------------------
(* Claims about the stake modifiers of the block index.                    *)

\* the interval of a time
ModifierIntervalOf(t) == t \div nModifierInterval

\* the nearest entry at or before position p with a generated modifier
C17_G(p) ==
    CHOOSE g \in 1..p :
        /\ chain[g].fGenerated
        /\ \A k \in (g + 1)..p : ~chain[k].fGenerated

C17_Inherited(e) ==
    LET G == chain[C17_G(e - 1)]
    IN  /\ ~chain[e].fGenerated
        /\ chain[e].nStakeModifier = G.nStakeModifier
        /\ ModifierIntervalOf(G.nTime) >= ModifierIntervalOf(chain[e - 1].nTime)

C17_Generated(e) ==
    LET G == chain[C17_G(e - 1)]
    IN  /\ chain[e].fGenerated
        /\ ModifierIntervalOf(G.nTime) < ModifierIntervalOf(chain[e - 1].nTime)

\* C17: off regtest, every entry E at height 2 or more, with predecessor P
\* and G the nearest entry at or before P that generated its modifier,
\* satisfies exactly one of: (a) E did not generate, carries the modifier
\* of G, and the interval of time(G) is not before that of time(P); (b) E
\* generated and the interval of time(G) is before that of time(P).
C17_ModifierChain ==
    ~fRegtest =>
        \A e \in 3..Len(chain) :
            /\ \E g \in 1..(e - 1) : chain[g].fGenerated
            /\ C17_Inherited(e) # C17_Generated(e)

\* C17 happens: a chain with an entry of each kind at height 2 or more, the
\* inheriting one two blocks after the entry whose modifier it carries
C17_Witness ==
    /\ ~fRegtest
    /\ \E e \in 3..Len(chain) : C17_Generated(e) /\ chain[e].nStakeModifier # {}
    /\ \E e \in 4..Len(chain) : C17_Inherited(e) /\ C17_G(e - 1) = e - 2 /\ e - 2 >= 3

\* C18: the genesis entry has modifier 0 and generated it; the entry at
\* height 1 has the modifier 0x7374616b656d6f64 and generated it, and on
\* regtest so has every entry at height 1 or more, whatever the times and
\* hashes of the chain.
C18_Sentinel ==
    /\ Len(chain) >= 1 =>
          chain[1].nStakeModifier = {} /\ chain[1].fGenerated
    /\ Len(chain) >= 2 =>
          chain[2].nStakeModifier = StakeModSentinel /\ chain[2].fGenerated
    /\ fRegtest =>
          \A e \in 2..Len(chain) :
              chain[e].nStakeModifier = StakeModSentinel /\ chain[e].fGenerated

\* C18 happens: a regtest chain of the largest size whose tip lies two
\* intervals after genesis and a block before it in a third interval
C18_Witness ==
    /\ fRegtest
    /\ Len(chain) = MaxBlocks
    /\ ModifierIntervalOf(chain[Len(chain)].nTime)
          = ModifierIntervalOf(GenesisTime) + 2
    /\ \E e \in 3..(Len(chain) - 1) :
          ModifierIntervalOf(chain[e].nTime)
              > ModifierIntervalOf(chain[Len(chain)].nTime)

\* C19: off regtest, no two entries at heights 2 or more that generated
\* their modifier have times in the same interval.
C19_OncePerInterval ==
    ~fRegtest =>
        \A a, b \in 3..Len(chain) :
            (a # b /\ chain[a].fGenerated /\ chain[b].fGenerated)
                => ModifierIntervalOf(chain[a].nTime)
                      # ModifierIntervalOf(chain[b].nTime)

\* C20: for the chain an entry was added to, ComputeNextStakeModifier has
\* one result, the same modifier and flag for every outcome of the shuffle.
C20_Deterministic ==
    chain # <<>> => Cardinality(modOutcomes) = 1

\* C20 happens: the last entry generated its modifier off regtest from at
\* least four candidates, two of them with the same time and different
\* entropy bits, so that the shuffle had several outcomes
C20_Witness ==
    /\ ~fRegtest
    /\ Len(chain) >= 5
    /\ chain[Len(chain)].fGenerated
    /\ \E a, b \in 1..(Len(chain) - 1) :
          /\ a # b
          /\ chain[a].nTime = chain[b].nTime
          /\ GetStakeEntropyBit(chain[a]) # GetStakeEntropyBit(chain[b])

----------------------------------------------------------------------------
(* Claims about repeated calls, the historic bypass, the protocol eras,    *)
(* the selection of modifier blocks and the kernel search.                 *)

\* C21: two calls of CreateNewBlock without a wallet, on the same
\* assembler or on a new one, against the same mempool, tip and adjusted
\* time (every read of the clock in the two calls gave the same time),
\* return the same template: the same entries in the same order with the
\* same fees and signature operation costs, the same transactions, the
\* same header fields and the same block totals.
C21_CallsIndependent ==
    (/\ prevCall.fReturned /\ apc = "done" /\ asmResult = "template"
     /\ ~prevCall.fClockMoved /\ ~fClockMoved)
        => BlockTemplate = prevCall.template

\* C21 happens: the second call returned a template with at least two
\* mempool transactions, so that the canonical sort had work to do
C21_Witness ==
    /\ prevCall.fReturned /\ apc = "done" /\ asmResult = "template"
    /\ ~prevCall.fClockMoved /\ ~fClockMoved
    /\ Len(prevCall.sortIn) >= 2
    /\ nFees > 0

\* C22: a check that reaches the target test at a height below
\* nMandatoryUpgradeBlock[0] on the main network of the chain parameters
\* returns true even when the hash misses the target; on every other
\* network and at every other height it returns true only if the target
\* test hits.
C22_HistoricBypass ==
    (kernelPc = "done" /\ kernelArgs.fCheck /\ kernelHist.at = "hash") =>
        LET nHeightCurrent == chain[Len(chain)].nHeight + 1
            fHit == stakeTargetHit(hashProofOfStake, kernelArgs.nValueIn,
                                   kernelLoop.bnTargetPerCoinDay,
                                   IsProtocolV05(chain, kernelParams))
        IN  IF /\ kernelParams.hashGenesisBlock
                      = MainKernelParams(<<0, 0>>).hashGenesisBlock
               /\ nHeightCurrent < kernelParams.nMandatoryUpgradeBlock[1]
            THEN kernelResult = "true"
            ELSE kernelResult = "true" => fHit

\* the -vbparams entries that are deployment:start:end with a known
\* deployment and integer times
WellFormedVbParams ==
    { << d, ":", a, ":", b >> : d \in {"testdummy", "taproot"},
                                a \in {"7"}, b \in {"7"} }

\* the last call of SelectParams was given an unknown network name, or
\* regtest with a malformed -vbparams entry or a -segwitheight out of range
SelectMisused ==
    \/ selectNetwork \notin {"main", "test", "signet", "regtest"}
    \/ /\ selectNetwork = "regtest"
       /\ \/ \E i \in 1..Len(gArgs.vbparams) :
                gArgs.vbparams[i] \notin WellFormedVbParams
          \/ /\ gArgs.segwitheight # <<>>
             /\ \/ gArgs.segwitheight[1] < -1
                \/ gArgs.segwitheight[1] >= INT_MAX

\* C23: SelectParams throws when the network name is not one of main,
\* test, signet, regtest, and when regtest has a malformed -vbparams entry
\* or a -segwitheight below -1 or at least INT_MAX; a call that throws
\* leaves the selected parameters as they were; -segwitheight = -1 gives
\* the activation height INT_MAX.
C23_SelectThrows ==
    /\ []((selectResult # "none" /\ SelectMisused) => selectResult = "threw")
    /\ []((selectResult = "returned" /\ selectNetwork = "regtest"
              /\ gArgs.segwitheight = << -1 >>)
            => globalChainParams.SegwitHeight = INT_MAX)
    /\ [][selectResult' = "threw" => globalChainParams' = globalChainParams]_vars

\* C23 happens: with the main parameters selected, regtest is selected
\* with a well-formed -vbparams entry followed by a malformed one
C23_Witness ==
    /\ selectResult = "threw"
    /\ selectNetwork = "regtest"
    /\ globalChainParams # <<>>
    /\ Len(gArgs.vbparams) = 2
    /\ gArgs.vbparams[1] \in WellFormedVbParams
    /\ gArgs.vbparams[2] \notin WellFormedVbParams

\* C24: in a kernel check for the block at height H = height(P) + 1,
\* the minimum age, the minimum depth, the weight rule, the search step
\* and the modifier resolution are all taken from the era that
\* H >= nMandatoryUpgradeBlock[1] names.
C24_OneEra ==
    kernelHist.at # "none" =>
        LET nEra == IF chain[Len(chain)].nHeight + 1
                          >= kernelParams.nMandatoryUpgradeBlock[2]
                    THEN 1 ELSE 0
        IN  \A choice \in DOMAIN kernelHist.eras :
                kernelHist.eras[choice] \in {-1, nEra}

\* the results of the last computation that went through the selection
\* rounds
RoundOutcomes == { r \in modOutcomes : "rounds" \in DOMAIN r }

\* the candidates of result r, in sorted order, as block index entries
CandidateEntries(r) ==
    [k \in 1..Len(r.vSortedByTimestamp) |->
        LookupBlockIndex(chain, r.vSortedByTimestamp[k].second)]

\* the position of a block in the sorted candidates of r
CandidatePosition(r, hash) ==
    CHOOSE k \in 1..Len(r.vSortedByTimestamp) :
        r.vSortedByTimestamp[k].second = hash

\* C25: in each round the selected block was not selected in an earlier
\* round, has a time not after the round's stop, and has the smallest
\* selection hash among the candidates not yet selected whose time is not
\* after the stop, the earlier one in sorted order when two are equal.
C25_RoundSelection ==
    \A r \in RoundOutcomes : \A n \in 1..Len(r.rounds) :
        LET round == r.rounds[n]
            sel == round.pindexSelected
            eligible ==
                { k \in 1..Len(r.vSortedByTimestamp) :
                    /\ CandidateEntries(r)[k].hash \notin round.mapSelectedBlocks
                    /\ CandidateEntries(r)[k].nTime
                          <= round.nSelectionIntervalStop }
        IN  /\ sel.hash \notin round.mapSelectedBlocks
            /\ sel.nTime <= round.nSelectionIntervalStop
            /\ \A k \in eligible :
                  LET hashOf(q) == SelectionHash(q, r.nStakeModifierPrev)
                      q == CandidateEntries(r)[k]
                  IN  \/ hashOf(sel) < hashOf(q)
                      \/ /\ hashOf(sel) = hashOf(q)
                         /\ CandidatePosition(r, sel.hash) <= k

\* C26: a modifier generated by the selection rounds has as many rounds
\* as the smaller of 64 and the number of candidates, its bit r is the
\* entropy bit of the block selected in round r, and its bits at the
\* number of rounds and above are 0; the new entry stores that modifier.
C26_EntropyBits ==
    \A r \in RoundOutcomes :
        r.fOk =>
            /\ Len(r.rounds) = Min(64, Len(r.vSortedByTimestamp))
            /\ \A b \in 0..63 :
                  b \in r.nStakeModifier
                      <=> /\ b < Len(r.rounds)
                          /\ GetStakeEntropyBit(r.rounds[b + 1].pindexSelected) = 1
            /\ chain[Len(chain)].fGenerated
            /\ chain[Len(chain)].nStakeModifier = r.nStakeModifier

\* C26 happens: a modifier was generated in four rounds or more, with
\* entropy bit 0 in the first round and 1 in a later one
C26_Witness ==
    \E r \in RoundOutcomes :
        /\ r.fOk
        /\ Len(r.rounds) >= 4
        /\ GetStakeEntropyBit(r.rounds[1].pindexSelected) = 0
        /\ \E n \in 2..Len(r.rounds) :
              GetStakeEntropyBit(r.rounds[n].pindexSelected) = 1

\* C27: the candidates of a modifier computation are the blocks among
\* P = pindexPrev and its ancestors whose time is at least
\* floor(time(P) / M) * M - SelectionInterval, and no other block.
C27_CandidateWindow ==
    \A r \in RoundOutcomes :
        LET P == Len(chain) - 1
            nStart == (chain[P].nTime \div nModifierInterval) * nModifierInterval
                         - GetStakeModifierSelectionInterval
        IN  { r.vSortedByTimestamp[k].second :
                k \in 1..Len(r.vSortedByTimestamp) }
              = { chain[p].hash : p \in { q \in 1..P : chain[q].nTime >= nStart } }

\* the entry at position g generated its modifier and is at least the
\* minimum age of the second era less a selection interval older than the
\* time the modifier is resolved for
QualifiesForStake(g) ==
    /\ chain[g].fGenerated
    /\ chain[g].nTime + kernelParams.nStakeMinAge[2]
            - GetStakeModifierSelectionInterval <= kernelArgs.nTimeTx

\* C28: when the V0.5 resolution succeeds for pindexPrev = P it returns
\* the modifier, the height and the time of one entry G: the nearest
\* strict ancestor of P that generated its modifier and has
\* time(G) + nStakeMinAge[1] - SelectionInterval <= nTimeTx.
C28_ResolvedEntry ==
    (modResolved.done /\ modResolved.fOk) =>
        \E g \in 1..(Len(chain) - 1) :
            /\ QualifiesForStake(g)
            /\ \A q \in (g + 1)..(Len(chain) - 1) : ~QualifiesForStake(q)
            /\ modResolved.nStakeModifier = chain[g].nStakeModifier
            /\ modResolved.nStakeModifierHeight = chain[g].nHeight
            /\ modResolved.nStakeModifierTime = chain[g].nTime

\* C28 happens: the resolution succeeded with an entry that is not the
\* nearest ancestor that generated a modifier: the walk passed an entry
\* that generated one and was too young
C28_Witness ==
    /\ modResolved.done /\ modResolved.fOk
    /\ \E q \in 1..(Len(chain) - 1) :
          /\ chain[q].fGenerated
          /\ chain[q].nHeight > modResolved.nStakeModifierHeight

\* C29: the V0.5 resolution fails exactly when
\* time(P) + nStakeMinAge[1] - SelectionInterval <= nTimeTx or no strict
\* ancestor of P qualifies (the walk reaches the genesis block); the walk
\* makes at most one turn for each entry; a check whose modifier
\* resolution fails returns false and computes no hash.
C29_ResolutionFails ==
    /\ modResolved.done =>
          /\ ~modResolved.fOk <=>
                \/ chain[Len(chain)].nTime + kernelParams.nStakeMinAge[2]
                        - GetStakeModifierSelectionInterval <= kernelArgs.nTimeTx
                \/ \A g \in 1..(Len(chain) - 1) : ~QualifiesForStake(g)
          /\ modResolved.nTurns <= Len(chain)
    /\ (kernelPc = "done" /\ kernelHist.at = "modifier") =>
          /\ kernelResult = "false"
          /\ kernelHist.nHashes = 0
          /\ hashProofOfStake = kernelArgs.hashProofOfStake
    /\ (kernelPc = "done" /\ kernelHist.at \in {"modifier", "hash"}
            /\ modResolved.done) =>
          (kernelHist.at = "modifier" <=> ~modResolved.fOk)

\* C29 happens: a check returned false because the tip was too old for
\* the stake, on a chain of several entries
C29_Witness ==
    /\ kernelPc = "done" /\ kernelHist.at = "modifier"
    /\ modResolved.done /\ ~modResolved.fOk
    /\ Len(chain) >= 3

\* the offsets a search tries, from nHashDrift down in steps of the mask
\* plus one after the second upgrade and of one before it
SearchWindow ==
    LET s == IF IsProtocolV05(chain, kernelParams)
             THEN kernelParams.nStakeTimestampMask + 1 ELSE 1
    IN  { i \in 0..kernelArgs.nHashDrift : (kernelArgs.nHashDrift - i) % s = 0 }

\* the stake hash of the searched coin at an offset
SearchHash(i) ==
    stakeHash(kernelArgs.nTimeTx + i, kernelLoop.nStakeModifier,
              kernelArgs.prevout, chain[kernelArgs.pFrom].nTime)

\* the offsets of the window whose hash passes the target test
SearchHits ==
    { i \in SearchWindow :
        stakeTargetHit(SearchHash(i), kernelArgs.nValueIn,
                       kernelLoop.bnTargetPerCoinDay,
                       IsProtocolV05(chain, kernelParams)) }

\* C30: a search that got to its loop returns true exactly when some
\* offset of its window passes the target test and the active tip did not
\* change during the search; it then leaves nTimeTx at the passed time
\* plus the largest such offset and hashProofOfStake at the hash for it.
C30_SearchResult ==
    (kernelPc = "done" /\ ~kernelArgs.fCheck /\ kernelHist.at = "hash") =>
        /\ kernelResult = "true"
              <=> /\ SearchHits # {}
                  /\ ~(kernelHist.fTipMoved \/ kernelHist.fTipReplaced)
        /\ kernelResult = "true" =>
              LET iBest == CHOOSE i \in SearchHits :
                              \A j \in SearchHits : j <= i
              IN  /\ kernelTimeTx = kernelArgs.nTimeTx + iBest
                  /\ hashProofOfStake = SearchHash(iBest)

----------------------------------------------------------------------------
(* Claims about the coinstake, the block time, the minter's sleeps, the    *)
(* package selection, the selection rounds, the V0.3 walk, stale blocks    *)
(* and the search clock.                                                   *)

\* C31: whenever CreateCoinStake returned true, the coinstake has exactly
\* one input, the outpoint of a coin of the wallet that is in the UTXO set,
\* meets the minimum age and depth at the block time and whose kernel hit
\* the target; output 0 is empty, output 1 pays the value of the coin plus
\* a reward above zero to a pay-to-pubkey script, the treasury outputs
\* follow, the block time has no bit of the stake timestamp mask set, and
\* the active chain's height was that of pindexPrev when the coin was
\* tried.
C31_CoinstakeLayout ==
    stakeKernel.fKernelFound =>
        LET tx    == stakeKernel.tx
            pcoin == stakeKernel.pcoin
        IN  /\ \E i \in 1..Len(setCoins) : setCoins[i] = pcoin
            /\ tx.vin = << pcoin.n >>
            /\ pcoin.fInUtxo /\ pcoin.fIndexed /\ pcoin.fKernel
            /\ pcoin.nTimeFrom + nStakeMinAge <= stakeKernel.nTime
            /\ nHeight - pcoin.nHeightFrom >= nStakeMinDepth
            /\ Len(tx.vout) >= 2
            /\ tx.vout[1] = [nValue |-> 0, scriptPubKey |-> ""]
            /\ pcoin.nReward > 0
            /\ tx.vout[2] = [nValue |-> pcoin.nValue + pcoin.nReward,
                             scriptPubKey |-> "pubkey OP_CHECKSIG"]
            /\ Len(tx.vout) = 2 + (IF nTreasuryPayment > 0
                                   THEN Len(treasuryPayees) ELSE 0)
            /\ \A k \in 3..Len(tx.vout) :
                  tx.vout[k] =
                      [nValue |-> (nTreasuryPayment * treasuryPayees[k - 2].pct)
                                     \div 100,
                       scriptPubKey |-> treasuryPayees[k - 2].script]
            /\ BitAnd(stakeKernel.nTime, nStakeTimestampMask) = 0
            /\ nTime = stakeKernel.nTime
            /\ stakeKernel.nHeightActive = nHeight - 1

\* CreateCoinStake returned true on a coin that is not the first of the
\* wallet, after it moved the block time forward, with treasury outputs.
C31_Witness ==
    /\ stakeKernel.fKernelFound
    /\ Len(setCoins) >= 2
    /\ stakeKernel.pcoin # setCoins[1]
    /\ stakeKernel.nTime > nAdjustedTime
    /\ Len(stakeKernel.tx.vout) > 2

\* C32: every template CreateNewBlock returns, with or without a wallet,
\* has a block time of at least the median time past of the tip plus one
\* and of at least the adjusted time the call read first; without a
\* wallet, when no later read of the clock gave another time, the block
\* time is the larger of the median time past plus one and the adjusted
\* time.
C32_BlockTime ==
    (apc = "done" /\ asmResult = "template") =>
        /\ nTime >= nMedianTimePast + 1
        /\ nTime >= nTimeAtStart
        /\ (~fProofOfStake /\ ~fClockMoved)
              => nTime = Max(nMedianTimePast + 1, nTimeAtStart)

\* A call without a wallet returned a template whose time is above the
\* adjusted time because of the median time past.
C32_Witness ==
    /\ apc = "done" /\ asmResult = "template"
    /\ ~fProofOfStake /\ ~fClockMoved
    /\ nTime > nTimeAtStart

\* a call with a wallet returned a template whose time was moved forward
\* to the next time slot
C32_WitnessStake ==
    /\ apc = "done" /\ asmResult = "template"
    /\ fProofOfStake
    /\ nTime > nTimeAtStart

\* C33: between two successive calls of CreateNewBlock by the minter loop
\* the thread passes at least one interruptible sleep, whatever the first
\* call and the steps after it gave: when the thread is about to call
\* again, it has slept since the call before.
C33_SleepBetweenCalls ==
    (pc = "create" /\ lastCall # "AvailableCoins") => fSlept

\* the same for the calls that were not followed by a failed signature
C33_SleepUnlessSignFailed ==
    (pc = "create" /\ lastCall \notin {"AvailableCoins", "SignBlock"})
        => fSlept

\* the position of a selected transaction among the entries
EntryPosition(t) == CHOOSE i \in 1..Len(entries) : entries[i].tx = t

\* C34: when package selection has ended and the canonical sort has not
\* run yet, every in-mempool ancestor of a selected transaction is
\* selected too and was appended before it, and the in-block set is the
\* set of the appended transactions, for every mempool graph and every
\* order in which the packages were chosen.
C34_AncestorsFirstBeforeSort ==
    (apc = "sort" /\ ~fAssertFailed) =>
        /\ inBlock = { entries[i].tx : i \in 1..Len(entries) } \cap TxIds
        /\ \A i, j \in 1..Len(entries) :
              (i # j /\ entries[i].tx \in TxIds) => entries[i].tx # entries[j].tx
        /\ \A t \in inBlock :
              \A a \in CalculateMemPoolAncestors(t) :
                  /\ a \in inBlock
                  /\ EntryPosition(a) < EntryPosition(t)

\* Selection ended with a transaction, its parent and its grandparent in
\* the block, the transaction being the first of the mempool index, so
\* that its package brought in its ancestors.
C34_Witness ==
    /\ apc = "sort" /\ ~fAssertFailed
    /\ \E t, a, g \in inBlock :
          /\ a \in mpParents[t] /\ g \in mpParents[a]
          /\ mapTx[1] = t

\* the entries of the modified set
ModifiedIters == { m.iter : m \in mapModifiedTx }

\* what is left for the loop of addPackageTxs to do: the transactions not
\* in the block weigh more than all entries of the mempool index and of
\* the modified set together
SelectionMeasure ==
    (Len(mapTx) - Cardinality(inBlock)) * (2 * Len(mapTx) + 2)
        + (Len(mapTx) + 1 - mi) + Cardinality(mapModifiedTx)

\* C35: every iteration of the loop of addPackageTxs that does not leave
\* the loop advances the mempool iterator, removes an entry from the
\* modified set or adds a transaction to the block; an entry enters the
\* modified set only in an iteration that adds a transaction to the
\* block; so the measure of the work left decreases at every iteration
\* and the loop ends.
C35_SelectionProgress ==
    [][(apc = "select" /\ apc' = "select") =>
          /\ \/ mi' > mi
             \/ (ModifiedIters' \subseteq ModifiedIters
                    /\ ModifiedIters' # ModifiedIters)
             \/ (inBlock \subseteq inBlock' /\ inBlock' # inBlock)
          /\ mi' >= mi
          /\ inBlock \subseteq inBlock'
          /\ (ModifiedIters' \ ModifiedIters # {}) => inBlock' # inBlock
          /\ SelectionMeasure' < SelectionMeasure
          /\ SelectionMeasure' >= 0]_vars

\* An entry that failed and was erased from the modified set is in it
\* again after a later package was added.
C35_Witness ==
    /\ apc = "select"
    /\ failedTx \cap ModifiedIters # {}

\* the results of a modifier computation for a block on top of the chain
\* that go through the selection rounds
NextRoundOutcomes ==
    { r \in ComputeNextStakeModifier(chain) : "rounds" \in DOMAIN r }

C37_ReadsWithinTmpChain == ~walk.fReadPastEnd

\* the entries on the path from the coin's block (not included) up to
\* pindexPrev, earliest first
RECURSIVE PathDown(_, _, _)
PathDown(br, ref, from) ==
    IF ref = from \/ ref = NullIndex THEN <<>>
    ELSE PathDown(br, PrevIndex(br, ref), from) \o <<ref>>

WalkPath == PathDown(sideBranch, walk.pindexPrev, walk.pindexFrom)

\* the first entry of the path that generated its modifier at or after the
\* time of the coin's block plus the selection interval
FirstLateModifier ==
    LET late == { i \in 1..Len(WalkPath) :
                    /\ EntryAt(chain, sideBranch, WalkPath[i]).fGenerated
                    /\ EntryAt(chain, sideBranch, WalkPath[i]).nTime
                          >= EntryAt(chain, sideBranch, walk.pindexFrom).nTime
                                + GetStakeModifierSelectionInterval }
    IN  IF late = {} THEN NullIndex
        ELSE WalkPath[CHOOSE i \in late : \A j \in late : i <= j]

\* C38: the V0.3 resolution for pindexPrev visits only pindexPrev and its
\* ancestors, and a modifier it returns is that of the first entry of the
\* path to pindexPrev that generated its modifier a selection interval
\* after the coin's block, never that of an entry above pindexPrev
C38_WalkStaysBelowPrev ==
    /\ walk.visited \subseteq AncestorsOrSelf(sideBranch, walk.pindexPrev)
    /\ walk.result = "true" =>
          /\ walk.pindex = FirstLateModifier
          /\ walk.nStakeModifier
                = EntryAt(chain, sideBranch, walk.pindex).nStakeModifier
          /\ EntryAt(chain, sideBranch, walk.pindex).nHeight
                <= EntryAt(chain, sideBranch, walk.pindexPrev).nHeight

\* C39: the minter never hands a stale block to ProcessNewBlock: when the
\* thread is at the call of ProcessNewBlock (miner.cpp 651) the block's
\* hashPrevBlock is the hash of the active tip, whatever another thread
\* did to the active chain
C39_NoStaleBlockProcessed == pc = "pbf_process" => ~fStale

\* C40: over all the calls of CreateNewBlock with a wallet, a coinstake
\* search is run only at an adjusted time greater than the time recorded
\* by the search before it (or at startup), a call that does not search
\* returns null with *pfPoSCancel true, and the recorded time never
\* decreases: the times of the searches are strictly increasing, at most
\* one search for a second of adjusted time
C40_SearchOncePerSecond ==
    /\ \A i \in 1..(Len(searchTimes) - 1) : searchTimes[i] < searchTimes[i + 1]
    /\ nLastCoinStakeSearchTime = searchTimes[Len(searchTimes)]
    /\ (fProofOfStake /\ stakeOutcome \in {"kernel", "no kernel"}) =>
          /\ Len(searchTimes) > 1
          /\ searchTimes[Len(searchTimes)] = nAdjustedTime
    /\ (fProofOfStake /\ stakeOutcome = "not searched") =>
          /\ nAdjustedTime <= nLastCoinStakeSearchTime
          /\ apc = "done"
          /\ asmResult = "null"
          /\ pfPoSCancel

\* searches were run in two calls, and a later call, at a time not past
\* the second search, returned null without a search
C40_Witness ==
    /\ Len(searchTimes) >= 3
    /\ fProofOfStake
    /\ stakeOutcome = "not searched"
    /\ asmResult = "null"

====
